---- MODULE Spec2Model ----
(***************************************************************************)
(* Model of the record store (src/src/internal/storage/index.ts) and of    *)
(* the decision tree evaluator (src/src/lib/permissions.ts).               *)
(*                                                                         *)
(* The storage class runs on the JavaScript event loop: a step of the      *)
(* model is either a task (a call made by the application, or an event the *)
(* engine delivers to a request handler) or one microtask (the             *)
(* continuation of an await whose promise has settled).  Microtasks run    *)
(* first-in first-out and the queue is drained before the next task.       *)
(***************************************************************************)
EXTENDS Integers, Sequences, FiniteSets, TLC

\* ---------------------------------------------------------------- bounds
NumCalls == 3
MaxClock == 3

\* ------------------------------------------------------------- constants
StoreNames == {"general", "migraines", "weather", "geolocation"}
DEFAULT_STORE_NAME == "general"
Undefined == "undefined"
Ids == {1, 2}
NoHandle == 0
Fields == {"a", "b"}
Absent == 0
NoData == [a |-> Absent, b |-> Absent]
Null == [id |-> 0, data |-> NoData, createdAt |-> 0, updatedAt |-> 0]
Calls == 1..NumCalls

VARIABLES
    dbVersion,      \* engine: version of database DB_NAME, 0 = it does not exist
    dbStores,       \* engine: names of the object stores of the database
    objects,        \* engine: objects[ns][id] = the stored item, or Null
    conns,          \* engine: the connections opened so far, by handle number
    openQueue,      \* engine: open requests not yet completed, oldest first
    txQueue,        \* engine: txQueue[ns] = requests of transactions on ns, oldest first
    clock,          \* Date.now()
    db,             \* this.db: a handle number, or NoHandle for null
    initPromise,    \* this.initPromise: the call that created it, or 0 for null
    currentStore,   \* this.currentStore
    knownStores,    \* this.knownStores
    calls,          \* the calls made to the storage instance and where each stands
    microtasks,     \* the continuations ready to run, oldest first
    upgrades,       \* history: upgrade transactions run by versioned opens of the current group of calls
    created,        \* history: created[ns] = number of createObjectStore(ns) executed
    lastWrite,      \* history: lastWrite[ns][id] = the call whose write to the record was applied last, 0 for none
    v0,             \* history: dbVersion when the instance was constructed
    evalPc,         \* predictWithTree: "none", "called" or "returned"
    evalArgs,       \* predictWithTree: the tree and the sample it is called with
    evalResult      \* predictWithTree: the score returned and the features pushed

vars == <<dbVersion, dbStores, objects, conns, openQueue, txQueue, clock, db,
          initPromise, currentStore, knownStores, calls, microtasks, upgrades,
          created, lastWrite, v0, evalPc, evalArgs, evalResult>>

evalVars == <<evalPc, evalArgs, evalResult>>

\* A call that has not been made yet.  engineError is history: an engine
\* request issued on behalf of the call has failed.
IdleCall ==
    [op |-> "none", store |-> DEFAULT_STORE_NAME, id |-> 0, data |-> NoData,
     pc |-> "idle", stage |-> 0, db |-> NoHandle, rdb |-> NoHandle, now |-> 0,
     existing |-> Null, res |-> <<>>, n |-> 0, error |-> "none", awaits |-> 0,
     engineError |-> FALSE]

Min(S) == CHOOSE x \in S : \A y \in S : x <= y

RECURSIVE SortedSeq(_)
SortedSeq(S) == IF S = {} THEN <<>> ELSE <<Min(S)>> \o SortedSeq(S \ {Min(S)})

InFlight(c) == calls[c].pc \notin {"idle", "done", "failed"}

\* Date.now(): the clock does not go back.
Now == {clock} \cup (IF clock < MaxClock THEN {clock + 1} ELSE {})

\* ------------------------------------------------------------ the engine
\* The version an open request asks for (open(name) asks for the current
\* version, or 1 when the database does not exist).
Requested(h) ==
    IF h.version # 0 THEN h.version ELSE IF dbVersion = 0 THEN 1 ELSE dbVersion

NeedsUpgrade(h) == dbVersion < Requested(h)

PendingOn(k) ==
    \E ns \in StoreNames : \E i \in 1..Len(txQueue[ns]) : txQueue[ns][i].conn = k

\* A connection stops blocking an upgrade when close() was called on it and
\* its transactions are complete.
Finished(k) == conns[k].closed /\ ~PendingOn(k)

NewConn(version, stores) == [version |-> version, stores |-> stores, closed |-> FALSE]

\* -------------------------------------------------------------- registry
\* Mutant: ensureStore reopens the database whenever a handle is open.
EnsureStoreMutant(c, r, mq) ==
    /\ knownStores' = knownStores \cup {r.store}
    /\ IF db # NoHandle
         THEN /\ conns' = [conns EXCEPT ![db].closed = TRUE]
              /\ db' = NoHandle
              /\ initPromise' = 0
              /\ openQueue' = Append(openQueue,
                     [kind |-> "ensure", by |-> c,
                      version |-> conns[db].version + 1,
                      missing |-> {r.store}, blocked |-> FALSE])
              /\ calls' = [calls EXCEPT ![c] = [r EXCEPT !.pc = "open"]]
              /\ microtasks' = mq
         ELSE IF initPromise # 0
                THEN /\ calls' = [calls EXCEPT ![c] =
                                    [r EXCEPT !.pc = "wait", !.awaits = initPromise]]
                     /\ microtasks' = mq
                     /\ UNCHANGED <<db, initPromise, conns, openQueue>>
                ELSE /\ openQueue' = Append(openQueue,
                            [kind |-> "probe", by |-> c, version |-> 0,
                             missing |-> {}, blocked |-> FALSE])
                     /\ calls' = [calls EXCEPT ![c] = [r EXCEPT !.pc = "probe"]]
                     /\ microtasks' = mq
                     /\ UNCHANGED <<db, initPromise, conns>>

\* ensureStore(storeName) up to its first await; r is the call's record,
\* mq the microtask queue left by the caller.
EnsureStore(c, r, mq) ==
    /\ knownStores' = knownStores \cup {r.store}
    /\ IF db # NoHandle
         THEN IF r.store \in conns[db].stores
                THEN \* store already exists
                     /\ calls' = [calls EXCEPT ![c] = [r EXCEPT !.pc = "ensured"]]
                     /\ microtasks' = Append(mq, c)
                     /\ UNCHANGED <<db, initPromise, conns, openQueue>>
                ELSE \* close the handle and reopen at version + 1
                     /\ conns' = [conns EXCEPT ![db].closed = TRUE]
                     /\ db' = NoHandle
                     /\ initPromise' = 0
                     /\ openQueue' = Append(openQueue,
                            [kind |-> "ensure", by |-> c,
                             version |-> conns[db].version + 1,
                             missing |-> {r.store}, blocked |-> FALSE])
                     /\ calls' = [calls EXCEPT ![c] = [r EXCEPT !.pc = "open"]]
                     /\ microtasks' = mq
         ELSE \* init()
              IF initPromise # 0
                THEN /\ calls' = [calls EXCEPT ![c] =
                                    [r EXCEPT !.pc = "wait", !.awaits = initPromise]]
                     /\ microtasks' = mq
                     /\ UNCHANGED <<db, initPromise, conns, openQueue>>
                ELSE \* getDatabaseInfo()
                     /\ openQueue' = Append(openQueue,
                            [kind |-> "probe", by |-> c, version |-> 0,
                             missing |-> {}, blocked |-> FALSE])
                     /\ calls' = [calls EXCEPT ![c] = [r EXCEPT !.pc = "probe"]]
                     /\ microtasks' = mq
                     /\ UNCHANGED <<db, initPromise, conns>>

\* checkRequest.onsuccess of getDatabaseInfo and the rest of init() after
\* its await: the probe connection is closed in the handler.
CheckRequestOnSuccess ==
    /\ microtasks = <<>>
    /\ openQueue # <<>>
    /\ LET h == Head(openQueue)
           c == h.by
           version == Requested(h)
           missingStores == knownStores \ dbStores
       IN  /\ h.kind = "probe"
           /\ \A k \in 1..Len(conns) : NeedsUpgrade(h) => Finished(k)
           /\ dbVersion' = version
           /\ openQueue' = Append(Tail(openQueue),
                  [kind |-> "init", by |-> c,
                   version |-> IF missingStores = {} THEN 0 ELSE version + 1,
                   missing |-> missingStores, blocked |-> FALSE])
           /\ initPromise' = c
           /\ calls' = [calls EXCEPT ![c].pc = "open"]
    /\ UNCHANGED <<dbStores, objects, conns, txQueue, clock, db, currentStore,
                   knownStores, microtasks, upgrades, created, lastWrite, v0, evalVars>>

\* checkRequest.onerror of getDatabaseInfo and the rest of init() after its
\* await: the probe open fails, getDatabaseInfo resolves with version 1 and
\* no stores, so init() finds every known store missing and opens version 2.
CheckRequestOnError ==
    /\ microtasks = <<>>
    /\ openQueue # <<>>
    /\ LET h == Head(openQueue)
           c == h.by
           version == 1
           missingStores == knownStores
       IN  /\ h.kind = "probe"
           /\ openQueue' = Append(Tail(openQueue),
                  [kind |-> "init", by |-> c, version |-> version + 1,
                   missing |-> missingStores, blocked |-> FALSE])
           /\ initPromise' = c
           /\ calls' = [calls EXCEPT ![c].pc = "open", ![c].engineError = TRUE]
    /\ UNCHANGED <<dbVersion, dbStores, objects, conns, txQueue, clock, db,
                   currentStore, knownStores, microtasks, upgrades, created,
                   lastWrite, v0, evalVars>>

\* The stores an upgrade request creates in its onupgradeneeded handler.
ToCreate(h) == IF NeedsUpgrade(h) THEN h.missing \ dbStores ELSE {}

\* The engine completes the oldest open request h: it runs the upgrade
\* transaction when the version rises, then hands out the connection.
Connect(h) ==
    /\ \A k \in 1..Len(conns) : NeedsUpgrade(h) => Finished(k)
    /\ h.version = 0 \/ h.version >= dbVersion
    /\ dbVersion' = Requested(h)
    /\ dbStores' = dbStores \cup ToCreate(h)
    /\ created' = [ns \in StoreNames |->
                      created[ns] + IF ns \in ToCreate(h) THEN 1 ELSE 0]
    /\ upgrades' = upgrades + IF NeedsUpgrade(h) THEN 1 ELSE 0
    /\ conns' = Append(conns, NewConn(Requested(h), dbStores \cup ToCreate(h)))
    /\ db' = Len(conns) + 1
    /\ openQueue' = Tail(openQueue)

\* request.onsuccess (and onupgradeneeded) of the two opens of init().
InitRequestOnSuccess ==
    /\ microtasks = <<>>
    /\ openQueue # <<>>
    /\ LET h == Head(openQueue)
           waiters == {h.by} \cup
               {c \in Calls : calls[c].pc = "wait" /\ calls[c].awaits = h.by}
       IN  /\ h.kind = "init"
           /\ Connect(h)
           /\ initPromise' = 0
           /\ calls' = [c \in Calls |->
                  IF c \in waiters
                    THEN [calls[c] EXCEPT !.pc = "ensured", !.awaits = 0]
                    ELSE calls[c]]
           /\ microtasks' = SortedSeq(waiters)
    /\ UNCHANGED <<objects, txQueue, clock, currentStore, knownStores,
                   lastWrite, v0, evalVars>>

\* request.onsuccess (and onupgradeneeded) of the open of ensureStore().
EnsureRequestOnSuccess ==
    /\ microtasks = <<>>
    /\ openQueue # <<>>
    /\ LET h == Head(openQueue)
       IN  /\ h.kind = "ensure"
           /\ Connect(h)
           /\ calls' = [calls EXCEPT ![h.by].pc = "ensured"]
           /\ microtasks' = <<h.by>>
    /\ UNCHANGED <<objects, txQueue, clock, initPromise, currentStore,
                   knownStores, lastWrite, v0, evalVars>>

\* The promise of call c is rejected inside ensureInit: the call fails with
\* error e, or, for the read() of an upsert(), .catch(() => null) lets the
\* upsert go on as if there were no record.
Rejected(r, e) ==
    IF r.stage = 2 /\ r.op = "upsert"
      THEN [r EXCEPT !.pc = "write", !.existing = Null, !.awaits = 0,
                     !.engineError = TRUE]
      ELSE [r EXCEPT !.pc = "failed", !.error = e, !.awaits = 0,
                     !.engineError = TRUE]

\* request.onerror of the two opens of init(): the engine fails the open
\* request; the promise is rejected for init's caller and for every call
\* awaiting it, and this.initPromise is set to null.
InitRequestOnError ==
    /\ microtasks = <<>>
    /\ openQueue # <<>>
    /\ LET h == Head(openQueue)
           waiters == {h.by} \cup
               {c \in Calls : calls[c].pc = "wait" /\ calls[c].awaits = h.by}
       IN  /\ h.kind = "init"
           /\ openQueue' = Tail(openQueue)
           /\ initPromise' = 0
           /\ calls' = [c \in Calls |->
                  IF c \in waiters THEN Rejected(calls[c], "OpenFailed")
                                   ELSE calls[c]]
           /\ microtasks' = SortedSeq({c \in waiters : calls'[c].pc = "write"})
    /\ UNCHANGED <<dbVersion, dbStores, objects, conns, txQueue, clock, db,
                   currentStore, knownStores, upgrades, created, lastWrite,
                   v0, evalVars>>

\* request.onerror of the open of ensureStore(): the promise is rejected.
EnsureRequestOnError ==
    /\ microtasks = <<>>
    /\ openQueue # <<>>
    /\ LET h == Head(openQueue)
       IN  /\ h.kind = "ensure"
           /\ openQueue' = Tail(openQueue)
           /\ calls' = [calls EXCEPT ![h.by] = Rejected(@, "UpgradeFailed")]
           /\ microtasks' = IF calls'[h.by].pc = "write" THEN <<h.by>> ELSE <<>>
    /\ UNCHANGED <<dbVersion, dbStores, objects, conns, txQueue, clock, db,
                   initPromise, currentStore, knownStores, upgrades, created,
                   lastWrite, v0, evalVars>>

\* The engine fires "blocked" at an upgrade request while a connection is
\* still open.  Only getDatabaseInfo sets onblocked (it rejects).
RequestBlocked ==
    /\ microtasks = <<>>
    /\ openQueue # <<>>
    /\ LET h == Head(openQueue)
       IN  /\ NeedsUpgrade(h)
           /\ ~h.blocked
           /\ \E k \in 1..Len(conns) : ~Finished(k)
           /\ IF h.kind = "probe"
                THEN /\ openQueue' = Tail(openQueue)
                     /\ calls' = [calls EXCEPT ![h.by].pc = "failed",
                                               ![h.by].error = "EngineBlocked"]
                ELSE /\ openQueue' = <<[h EXCEPT !.blocked = TRUE]>> \o Tail(openQueue)
                     /\ UNCHANGED calls
    /\ UNCHANGED <<dbVersion, dbStores, objects, conns, txQueue, clock, db,
                   initPromise, currentStore, knownStores, microtasks,
                   upgrades, created, lastWrite, v0, evalVars>>

\* ---------------------------------------------------------- transactions
\* db.transaction([ns], mode) on handle k throws when close() was called on
\* the handle, or when the handle has no object store ns.
TxError(k, ns) ==
    IF conns[k].closed THEN "InvalidStateError"
    ELSE IF ns \notin conns[k].stores THEN "NotFoundError"
    ELSE "none"

\* Mutant: every transaction is opened readwrite.
RequestMutant(c, k, type, mode, id, item) ==
    [by |-> c, conn |-> k, type |-> type, mode |-> "readwrite", id |-> id,
     item |-> item]

Request(c, k, type, mode, id, item) ==
    [by |-> c, conn |-> k, type |-> type, mode |-> mode, id |-> id, item |-> item]

\* Mutant: the transaction is opened on the store that is current when the
\* request is issued.
IssueMutant(c, r, k, type, mode, id, item) ==
    IF TxError(k, currentStore) = "none"
      THEN /\ txQueue' = [txQueue EXCEPT ![currentStore] =
                             Append(@, Request(c, k, type, mode, id, item))]
           /\ calls' = [calls EXCEPT ![c] = [r EXCEPT !.pc = "tx"]]
      ELSE /\ calls' = [calls EXCEPT ![c] =
                          [r EXCEPT !.pc = "failed",
                                    !.error = TxError(k, currentStore)]]
           /\ UNCHANGED txQueue

\* A call that opens a transaction on its handle and issues one request,
\* or rejects when transaction() throws.
Issue(c, r, k, type, mode, id, item) ==
    IF TxError(k, r.store) = "none"
      THEN /\ txQueue' = [txQueue EXCEPT ![r.store] =
                             Append(@, Request(c, k, type, mode, id, item))]
           /\ calls' = [calls EXCEPT ![c] = [r EXCEPT !.pc = "tx"]]
      ELSE /\ calls' = [calls EXCEPT ![c] =
                          [r EXCEPT !.pc = "failed", !.error = TxError(k, r.store)]]
           /\ UNCHANGED txQueue

\* ----------------------------------------------------------------- calls
\* The application calls op(id, data, storeName): the code up to the first
\* await of ensureInit(targetStore).
Invoke(c, op, id, data, storeName) ==
    /\ microtasks = <<>>
    /\ calls[c].pc = "idle"
    /\ \A d \in 1..(c - 1) : calls[d].pc # "idle"
    /\ LET targetStore == IF storeName = Undefined THEN currentStore ELSE storeName
       IN  EnsureStore(c, [IdleCall EXCEPT !.op = op, !.id = id, !.data = data,
                                           !.store = targetStore, !.stage = 1],
                       microtasks)
    /\ upgrades' = IF \E d \in Calls : InFlight(d) THEN upgrades ELSE 0
    /\ UNCHANGED <<dbVersion, dbStores, objects, txQueue, clock, currentStore,
                   created, lastWrite, v0, evalVars>>

\* useStore(storeName): this.currentStore = storeName.
UseStore(storeName) ==
    /\ microtasks = <<>>
    /\ currentStore # storeName
    /\ currentStore' = storeName
    /\ UNCHANGED <<dbVersion, dbStores, objects, conns, openQueue, txQueue,
                   clock, db, initPromise, knownStores, calls, microtasks,
                   upgrades, created, lastWrite, v0, evalVars>>

\* ensureInit() after "await this.ensureStore(storeName)".
EnsureInitContinue ==
    /\ microtasks # <<>>
    /\ LET c == Head(microtasks)
           r == calls[c]
       IN  /\ r.pc = "ensured"
           /\ IF db = NoHandle
                THEN \* throw new Error('Database initialization failed')
                     IF r.stage = 2 /\ r.op = "upsert"
                       THEN \* this.read(...).catch(() => null)
                            /\ calls' = [calls EXCEPT ![c].pc = "write",
                                                      ![c].existing = Null]
                            /\ microtasks' = Append(Tail(microtasks), c)
                       ELSE /\ calls' = [calls EXCEPT ![c].pc = "failed",
                                                      ![c].error = "InitFailed"]
                            /\ microtasks' = Tail(microtasks)
                ELSE /\ calls' = [calls EXCEPT ![c] =
                            IF r.stage = 1 THEN [r EXCEPT !.pc = "body", !.db = db]
                                           ELSE [r EXCEPT !.pc = "body", !.rdb = db]]
                     /\ microtasks' = Append(Tail(microtasks), c)
    /\ UNCHANGED <<dbVersion, dbStores, objects, conns, openQueue, txQueue,
                   clock, db, initPromise, currentStore, knownStores, upgrades,
                   created, lastWrite, v0, evalVars>>

\* The head of the microtask queue is call c at the start of the body of op.
AtBody(c, op, stage) ==
    /\ microtasks # <<>>
    /\ c = Head(microtasks)
    /\ calls[c].pc = "body"
    /\ calls[c].op = op
    /\ calls[c].stage = stage

registryVars == <<db, initPromise, conns, openQueue, knownStores>>

\* The item create() builds.
CreateItem(id, data, now) ==
    [id |-> id, data |-> data, createdAt |-> now, updatedAt |-> now]

\* create(): store.add(item) in a readwrite transaction.
CreateBody ==
    \E c \in Calls : \E now \in Now :
        /\ AtBody(c, "create", 1)
        /\ clock' = now
        /\ Issue(c, [calls[c] EXCEPT !.now = now], calls[c].db, "add", "readwrite",
                 calls[c].id,
                 CreateItem(calls[c].id, calls[c].data, now))
        /\ microtasks' = Tail(microtasks)
        /\ UNCHANGED <<dbVersion, dbStores, objects, currentStore, upgrades,
                       created, lastWrite, v0, evalVars, registryVars>>

\* The bodies of the operations that issue one request and return its result.
SimpleBody(op, type, mode) ==
    \E c \in Calls :
        /\ AtBody(c, op, 1)
        /\ Issue(c, calls[c], calls[c].db, type, mode, calls[c].id, Null)
        /\ microtasks' = Tail(microtasks)
        /\ UNCHANGED <<dbVersion, dbStores, objects, clock, currentStore,
                       upgrades, created, lastWrite, v0, evalVars, registryVars>>

ReadBody == SimpleBody("read", "get", "readonly")
ReadAllBody == SimpleBody("readAll", "getAll", "readonly")
ReadAllDataBody == SimpleBody("readAllData", "getAll", "readonly")
DeleteBody == SimpleBody("delete", "delete", "readwrite")
DeleteAllBody == SimpleBody("deleteAll", "clear", "readwrite")
ClearBody == SimpleBody("clear", "clear", "readwrite")
CountBody == SimpleBody("count", "count", "readonly")

\* upsert() after its ensureInit: takes the time, then calls this.read(),
\* which starts with its own ensureInit(targetStore).
UpsertBody ==
    \E c \in Calls : \E now \in Now :
        /\ AtBody(c, "upsert", 1)
        /\ clock' = now
        /\ EnsureStore(c, [calls[c] EXCEPT !.now = now, !.stage = 2],
                       Tail(microtasks))
        /\ UNCHANGED <<dbVersion, dbStores, objects, txQueue, currentStore,
                       upgrades, created, lastWrite, v0, evalVars>>

\* update() after its ensureInit: calls this.read().
UpdateBody ==
    \E c \in Calls :
        /\ AtBody(c, "update", 1)
        /\ EnsureStore(c, [calls[c] EXCEPT !.stage = 2], Tail(microtasks))
        /\ UNCHANGED <<dbVersion, dbStores, objects, txQueue, clock,
                       currentStore, upgrades, created, lastWrite, v0, evalVars>>

\* The body of the read() called by upsert() or update(): store.get(id) on
\* the handle read() got from its own ensureInit.
InnerReadBody ==
    \E c \in Calls :
        /\ microtasks # <<>>
        /\ c = Head(microtasks)
        /\ calls[c].pc = "body"
        /\ calls[c].stage = 2
        /\ LET r == calls[c]
               e == TxError(r.rdb, r.store)
           IN  IF e = "none"
                 THEN /\ Issue(c, r, r.rdb, "get", "readonly", r.id, Null)
                      /\ microtasks' = Tail(microtasks)
                 ELSE IF r.op = "upsert"
                   THEN \* .catch(() => null)
                        /\ calls' = [calls EXCEPT ![c].pc = "write",
                                                  ![c].existing = Null]
                        /\ microtasks' = Append(Tail(microtasks), c)
                        /\ UNCHANGED txQueue
                   ELSE /\ calls' = [calls EXCEPT ![c].pc = "failed", ![c].error = e]
                        /\ microtasks' = Tail(microtasks)
                        /\ UNCHANGED txQueue
        /\ UNCHANGED <<dbVersion, dbStores, objects, clock, currentStore,
                       upgrades, created, lastWrite, v0, evalVars, registryVars>>

\* { ...existing.data, ...data }
Merge(old, new) == [f \in Fields |-> IF new[f] # Absent THEN new[f] ELSE old[f]]

\* Mutant: upsert() merges the payload into the existing one, as update() does.
UpsertItemMutant(r) ==
    [id |-> r.id, data |-> Merge(r.existing.data, r.data),
     createdAt |-> IF r.existing.createdAt # 0 THEN r.existing.createdAt ELSE r.now,
     updatedAt |-> r.now]

\* The item upsert() builds from what it read (r.existing) and its time.
UpsertItem(r) ==
    [id |-> r.id, data |-> r.data,
     createdAt |-> IF r.existing.createdAt # 0 THEN r.existing.createdAt ELSE r.now,
     updatedAt |-> r.now]

\* upsert() after "await this.read(...)": store.put(item) on the handle
\* taken before the read.
UpsertWrite ==
    \E c \in Calls :
        /\ microtasks # <<>>
        /\ c = Head(microtasks)
        /\ calls[c].pc = "write"
        /\ calls[c].op = "upsert"
        /\ LET r == calls[c]
           IN  Issue(c, [r EXCEPT !.stage = 3], r.db, "put", "readwrite", r.id,
                     UpsertItem(r))
        /\ microtasks' = Tail(microtasks)
        /\ UNCHANGED <<dbVersion, dbStores, objects, clock, currentStore,
                       upgrades, created, lastWrite, v0, evalVars, registryVars>>

\* The item update() builds from what it read.
UpdatedItem(r, now) ==
    [r.existing EXCEPT !.data = Merge(@, r.data), !.updatedAt = now]

\* update() after "await this.read(...)": throws when nothing was read,
\* else store.put of the merged item on the handle taken before the read.
UpdateWrite ==
    \E c \in Calls : \E now \in Now :
        /\ microtasks # <<>>
        /\ c = Head(microtasks)
        /\ calls[c].pc = "write"
        /\ calls[c].op = "update"
        /\ LET r == calls[c]
           IN  IF r.existing = Null
                 THEN /\ calls' = [calls EXCEPT ![c].pc = "failed",
                                                ![c].error = "NotFound"]
                      /\ UNCHANGED <<txQueue, clock>>
                 ELSE /\ clock' = now
                      /\ Issue(c, [r EXCEPT !.stage = 3, !.now = now], r.db, "put",
                               "readwrite", r.id, UpdatedItem(r, now))
        /\ microtasks' = Tail(microtasks)
        /\ UNCHANGED <<dbVersion, dbStores, objects, currentStore, upgrades,
                       created, lastWrite, v0, evalVars, registryVars>>

\* ------------------------------------------------------ request handlers
\* The engine completes the oldest request of a transaction on ns.
Completes(ns, type) ==
    /\ microtasks = <<>>
    /\ txQueue[ns] # <<>>
    /\ Head(txQueue[ns]).type = type
    /\ txQueue' = [txQueue EXCEPT ![ns] = Tail(@)]

Settle(c, res, n, error) ==
    calls' = [calls EXCEPT ![c].pc = IF error = "none" THEN "done" ELSE "failed",
                           ![c].res = res, ![c].n = n, ![c].error = error]

\* Mutant: add() overwrites like put().
ConstraintErrorMutant(ns, id) == FALSE

\* store.add(item) raises ConstraintError when the key is in the store.
ConstraintError(ns, id) == objects[ns][id] # Null

\* request.onsuccess and request.onerror of create().
AddDone ==
    \E ns \in StoreNames :
        /\ Completes(ns, "add")
        /\ LET q == Head(txQueue[ns])
           IN  IF ConstraintError(ns, q.id)
                 THEN /\ Settle(q.by, <<>>, 0, "DuplicateKey")
                      /\ UNCHANGED <<objects, lastWrite>>
                 ELSE /\ Settle(q.by, <<>>, 0, "none")
                      /\ objects' = [objects EXCEPT ![ns][q.id] = q.item]
                      /\ lastWrite' = [lastWrite EXCEPT ![ns][q.id] = q.by]
        /\ UNCHANGED <<dbVersion, dbStores, clock, currentStore, microtasks,
                       upgrades, created, v0, evalVars, registryVars>>

\* store.put(item) of upsert() and update().
PutDone ==
    \E ns \in StoreNames :
        /\ Completes(ns, "put")
        /\ LET q == Head(txQueue[ns])
           IN  /\ Settle(q.by, <<>>, 0, "none")
               /\ objects' = [objects EXCEPT ![ns][q.id] = q.item]
               /\ lastWrite' = [lastWrite EXCEPT ![ns][q.id] = q.by]
        /\ UNCHANGED <<dbVersion, dbStores, clock, currentStore, microtasks,
                       upgrades, created, v0, evalVars, registryVars>>

\* request.result || null, as a list of at most one item
Found(item) == IF item = Null THEN <<>> ELSE <<item>>

\* store.get(id) of read(): the result goes to the caller of read(), or to
\* the upsert() or update() that called it.
GetDone ==
    \E ns \in StoreNames :
        /\ Completes(ns, "get")
        /\ LET q == Head(txQueue[ns])
               c == q.by
           IN  IF calls[c].stage = 2
                 THEN /\ calls' = [calls EXCEPT ![c].pc = "write",
                                                ![c].existing = objects[ns][q.id]]
                      /\ microtasks' = <<c>>
                 ELSE /\ Settle(c, Found(objects[ns][q.id]), 0, "none")
                      /\ UNCHANGED microtasks
        /\ UNCHANGED <<dbVersion, dbStores, objects, clock, currentStore,
                       upgrades, created, lastWrite, v0, evalVars, registryVars>>

\* request.onerror of read(): the engine fails the get request.  The
\* rejection goes to the caller of read(); update() passes it on, upsert()
\* catches it and goes on as if there were no record.
GetError ==
    \E ns \in StoreNames :
        /\ Completes(ns, "get")
        /\ LET c == Head(txQueue[ns]).by
           IN  IF calls[c].stage = 2 /\ calls[c].op = "upsert"
                 THEN /\ calls' = [calls EXCEPT ![c].pc = "write",
                                                ![c].existing = Null,
                                                ![c].engineError = TRUE]
                      /\ microtasks' = <<c>>
                 ELSE /\ calls' = [calls EXCEPT ![c].pc = "failed",
                                                ![c].error = "ReadFailed",
                                                ![c].engineError = TRUE]
                      /\ UNCHANGED microtasks
        /\ UNCHANGED <<dbVersion, dbStores, objects, clock, currentStore,
                       upgrades, created, lastWrite, v0, evalVars, registryVars>>

\* Mutant: the result is returned in descending order of id.
SortByIdMutant(items) == [k \in 1..Len(items) |-> items[Len(items) + 1 - k]]

\* result.sort((a, b) => a.id - b.id): insertion into a list sorted by id
RECURSIVE SortById(_)
SortById(items) ==
    IF items = <<>> THEN <<>>
    ELSE LET x == Head(items)
             rest == SortById(Tail(items))
             before == SelectSeq(rest, LAMBDA y : y.id <= x.id)
             after == SelectSeq(rest, LAMBDA y : y.id > x.id)
         IN  before \o <<x>> \o after

\* store.getAll(): the items of ns in key order
GetAll(ns) ==
    LET keys == SortedSeq({i \in Ids : objects[ns][i] # Null})
    IN  [k \in 1..Len(keys) |-> objects[ns][keys[k]]]

\* request.onsuccess of readAll(): the sorted result goes to the caller of
\* readAll(), or to the getHistoricalData() or readAllData() that awaits it.
GetAllDone ==
    \E ns \in StoreNames :
        /\ Completes(ns, "getAll")
        /\ LET c == Head(txQueue[ns]).by
           IN  IF calls[c].op \in {"predict", "readAllData"}
                 THEN /\ calls' = [calls EXCEPT
                            ![c].pc = IF calls[c].op = "predict" THEN "history"
                                                                ELSE "items",
                            ![c].existing = SortById(GetAll(ns))]
                      /\ microtasks' = <<c>>
                 ELSE /\ Settle(c, SortById(GetAll(ns)), 0, "none")
                      /\ UNCHANGED microtasks
        /\ UNCHANGED <<dbVersion, dbStores, objects, clock, currentStore,
                       upgrades, created, lastWrite, v0, evalVars, registryVars>>

\* request.onerror of readAll(): the engine fails the getAll request.  The
\* rejection goes to the caller of readAll(), or into the catch block of the
\* getHistoricalData() that awaits it.
GetAllError ==
    \E ns \in StoreNames :
        /\ Completes(ns, "getAll")
        /\ LET c == Head(txQueue[ns]).by
           IN  IF calls[c].op = "predict"
                 THEN /\ calls' = [calls EXCEPT ![c].pc = "caught",
                                                ![c].engineError = TRUE]
                      /\ microtasks' = <<c>>
                 ELSE /\ calls' = [calls EXCEPT ![c].pc = "failed",
                                                ![c].error = "ReadAllFailed",
                                                ![c].engineError = TRUE]
                      /\ UNCHANGED microtasks
        /\ UNCHANGED <<dbVersion, dbStores, objects, clock, currentStore,
                       upgrades, created, lastWrite, v0, evalVars, registryVars>>

\* readAllData() after "await this.readAll(storeName)".
ReadAllDataContinue ==
    \E c \in Calls :
        /\ microtasks # <<>>
        /\ c = Head(microtasks)
        /\ calls[c].op = "readAllData"
        /\ calls[c].pc = "items"
        /\ LET items == calls[c].existing
           IN  Settle(c, [k \in 1..Len(items) |-> items[k].data], 0, "none")
        /\ microtasks' = Tail(microtasks)
        /\ UNCHANGED <<dbVersion, dbStores, objects, txQueue, clock, currentStore,
                       upgrades, created, lastWrite, v0, evalVars, registryVars>>

DeleteDone ==
    \E ns \in StoreNames :
        /\ Completes(ns, "delete")
        /\ LET q == Head(txQueue[ns])
           IN  /\ Settle(q.by, <<>>, 0, "none")
               /\ objects' = [objects EXCEPT ![ns][q.id] = Null]
               /\ lastWrite' = [lastWrite EXCEPT ![ns][q.id] = q.by]
        /\ UNCHANGED <<dbVersion, dbStores, clock, currentStore, microtasks,
                       upgrades, created, v0, evalVars, registryVars>>

\* Mutant: clear() empties every namespace of the database.
ClearDoneMutant ==
    \E ns \in StoreNames :
        /\ Completes(ns, "clear")
        /\ Settle(Head(txQueue[ns]).by, <<>>, 0, "none")
        /\ objects' = [n \in StoreNames |-> [i \in Ids |-> Null]]
        /\ lastWrite' = [lastWrite EXCEPT ![ns] =
                            [i \in Ids |-> Head(txQueue[ns]).by]]
        /\ UNCHANGED <<dbVersion, dbStores, clock, currentStore, microtasks,
                       upgrades, created, v0, evalVars, registryVars>>

\* request.onsuccess of clear() and of deleteAll().
ClearDone ==
    \E ns \in StoreNames :
        /\ Completes(ns, "clear")
        /\ Settle(Head(txQueue[ns]).by, <<>>, 0, "none")
        /\ objects' = [objects EXCEPT ![ns] = [i \in Ids |-> Null]]
        /\ lastWrite' = [lastWrite EXCEPT ![ns] =
                            [i \in Ids |-> Head(txQueue[ns]).by]]
        /\ UNCHANGED <<dbVersion, dbStores, clock, currentStore, microtasks,
                       upgrades, created, v0, evalVars, registryVars>>

CountDone ==
    \E ns \in StoreNames :
        /\ Completes(ns, "count")
        /\ Settle(Head(txQueue[ns]).by, <<>>,
                  Cardinality({i \in Ids : objects[ns][i] # Null}), "none")
        /\ UNCHANGED <<dbVersion, dbStores, objects, clock, currentStore,
                       microtasks, upgrades, created, lastWrite, v0, evalVars, registryVars>>

\* ------------------------------------------------------- initial states
\* What an earlier session can have left in the engine: no database, or
\* the database as the first call of a session creates it.
PriorVersions == {0, 2}
PriorItems == {Null, [id |-> 1, data |-> [a |-> 1, b |-> Absent],
                      createdAt |-> 1, updatedAt |-> 1]}

\* The state after "new IndexedDBStorage()".
StorageInit ==
    /\ dbVersion \in PriorVersions
    /\ dbStores = IF dbVersion = 0 THEN {} ELSE {DEFAULT_STORE_NAME, "migraines"}
    /\ \E item \in PriorItems :
          /\ item # Null => dbVersion # 0
          /\ objects = [ns \in StoreNames |-> [i \in Ids |->
                IF ns = DEFAULT_STORE_NAME /\ i = item.id THEN item ELSE Null]]
    /\ conns = <<>>
    /\ openQueue = <<>>
    /\ txQueue = [ns \in StoreNames |-> <<>>]
    /\ clock = 1
    /\ db = NoHandle
    /\ initPromise = 0
    /\ currentStore = DEFAULT_STORE_NAME
    /\ knownStores = {DEFAULT_STORE_NAME, "migraines"}
    /\ calls = [c \in Calls |-> IdleCall]
    /\ microtasks = <<>>
    /\ upgrades = 0
    /\ created = [ns \in StoreNames |-> 0]
    /\ lastWrite = [ns \in StoreNames |-> [i \in Ids |-> 0]]
    /\ v0 = dbVersion

\* The state after the modules are loaded: no prediction was asked for.
Init ==
    /\ StorageInit
    /\ evalPc = "none"
    /\ evalArgs = <<>>
    /\ evalResult = <<>>

\* ------------------------------------------------------- specifications
Payloads == {[a |-> 2, b |-> Absent], [a |-> Absent, b |-> 1]}
RegStores == {"general", "weather", "geolocation"}
RecCalls == 2

\* The namespace registry under calls that name existing and missing stores.
Count == \E c \in Calls : \E ns \in RegStores : Invoke(c, "count", 1, NoData, ns)

NextReg ==
    \/ Count
    \/ CheckRequestOnSuccess
    \/ InitRequestOnSuccess
    \/ EnsureRequestOnSuccess
    \/ RequestBlocked
    \/ EnsureInitContinue
    \/ CountBody
    \/ CountDone

SpecReg == Init /\ [][NextReg]_vars

\* The steps that are not calls of the application: the engine completes
\* the oldest open request and the oldest request of a transaction, and
\* the event loop runs the oldest microtask.
EngineReg ==
    \/ CheckRequestOnSuccess
    \/ InitRequestOnSuccess
    \/ EnsureRequestOnSuccess
    \/ RequestBlocked
    \/ EnsureInitContinue
    \/ CountBody
    \/ CountDone

\* The registry with an engine and an event loop that do not stop while
\* they have something to do.
FairSpecReg == SpecReg /\ WF_vars(EngineReg)

RecIds == {1}

\* The record operations on one namespace.
RecInvoke(op, data) ==
    \E c \in 1..RecCalls : \E id \in RecIds : Invoke(c, op, id, data, Undefined)

Create == \E data \in Payloads : RecInvoke("create", data)
Upsert == \E data \in Payloads : RecInvoke("upsert", data)
Update == \E data \in Payloads : RecInvoke("update", data)
Read == RecInvoke("read", NoData)
Delete == RecInvoke("delete", NoData)

Next ==
    \/ Create
    \/ Upsert
    \/ Update
    \/ Read
    \/ Delete
    \/ CheckRequestOnSuccess
    \/ InitRequestOnSuccess
    \/ EnsureInitContinue
    \/ CreateBody
    \/ ReadBody
    \/ DeleteBody
    \/ UpsertBody
    \/ UpdateBody
    \/ InnerReadBody
    \/ UpsertWrite
    \/ UpdateWrite
    \/ AddDone
    \/ PutDone
    \/ GetDone
    \/ DeleteDone

Spec == Init /\ [][Next]_vars

\* Upserts on one namespace with an engine whose probe opens and get
\* requests can fail.
NextFail ==
    \/ Upsert
    \/ CheckRequestOnSuccess
    \/ CheckRequestOnError
    \/ InitRequestOnSuccess
    \/ EnsureInitContinue
    \/ UpsertBody
    \/ InnerReadBody
    \/ UpsertWrite
    \/ GetDone
    \/ GetError
    \/ PutDone

SpecFail == Init /\ [][NextFail]_vars

\* Records created under several ids on one namespace, each with a payload
\* of its own, and read back whole.
CreateAny ==
    \E c \in Calls : \E id \in Ids :
        Invoke(c, "create", id, [a |-> id, b |-> Absent], Undefined)
ReadAll == \E c \in Calls : Invoke(c, "readAll", 1, NoData, Undefined)
ReadAllData == \E c \in Calls : Invoke(c, "readAllData", 1, NoData, Undefined)

NextReadAll ==
    \/ CreateAny
    \/ ReadAll
    \/ ReadAllData
    \/ CheckRequestOnSuccess
    \/ InitRequestOnSuccess
    \/ EnsureInitContinue
    \/ CreateBody
    \/ ReadAllBody
    \/ ReadAllDataBody
    \/ AddDone
    \/ GetAllDone
    \/ ReadAllDataContinue

SpecReadAll == Init /\ [][NextReadAll]_vars

\* Writes on two namespaces: one the database has from the start, one that
\* a schema upgrade adds.
NsStores == {DEFAULT_STORE_NAME, "weather"}

NsInvoke(op, data) ==
    \E c \in 1..RecCalls : \E ns \in NsStores : Invoke(c, op, 1, data, ns)

NsCreate == NsInvoke("create", [a |-> 2, b |-> Absent])
NsUpsert == NsInvoke("upsert", [a |-> 2, b |-> Absent])
NsUpdate == NsInvoke("update", [a |-> Absent, b |-> 1])
NsDelete == NsInvoke("delete", NoData)
NsDeleteAll == NsInvoke("deleteAll", NoData)
NsClear == NsInvoke("clear", NoData)

NextNs ==
    \/ NsCreate
    \/ NsUpsert
    \/ NsUpdate
    \/ NsDelete
    \/ NsDeleteAll
    \/ NsClear
    \/ CheckRequestOnSuccess
    \/ InitRequestOnSuccess
    \/ EnsureRequestOnSuccess
    \/ RequestBlocked
    \/ EnsureInitContinue
    \/ CreateBody
    \/ DeleteBody
    \/ DeleteAllBody
    \/ ClearBody
    \/ UpsertBody
    \/ UpdateBody
    \/ InnerReadBody
    \/ UpsertWrite
    \/ UpdateWrite
    \/ AddDone
    \/ PutDone
    \/ GetDone
    \/ DeleteDone
    \/ ClearDone

SpecNs == Init /\ [][NextNs]_vars

\* Every operation that opens a transaction, each on one of two
\* namespaces.
TxInvoke(op, data, ns) == \E c \in 1..RecCalls : Invoke(c, op, 1, data, ns)

TxCreate == TxInvoke("create", [a |-> 2, b |-> Absent], "weather")
TxUpsert == TxInvoke("upsert", [a |-> 2, b |-> Absent], DEFAULT_STORE_NAME)
TxUpdate == TxInvoke("update", [a |-> Absent, b |-> 1], DEFAULT_STORE_NAME)
TxRead == TxInvoke("read", NoData, DEFAULT_STORE_NAME)
TxReadAll == TxInvoke("readAll", NoData, "weather")
TxDelete == TxInvoke("delete", NoData, "weather")
TxDeleteAll == TxInvoke("deleteAll", NoData, DEFAULT_STORE_NAME)
TxCount == TxInvoke("count", NoData, DEFAULT_STORE_NAME)
TxClear == TxInvoke("clear", NoData, "weather")

NextTx ==
    \/ TxCreate
    \/ TxUpsert
    \/ TxUpdate
    \/ TxRead
    \/ TxReadAll
    \/ TxDelete
    \/ TxDeleteAll
    \/ TxCount
    \/ TxClear
    \/ CheckRequestOnSuccess
    \/ InitRequestOnSuccess
    \/ EnsureRequestOnSuccess
    \/ RequestBlocked
    \/ EnsureInitContinue
    \/ CreateBody
    \/ ReadBody
    \/ ReadAllBody
    \/ DeleteBody
    \/ DeleteAllBody
    \/ CountBody
    \/ ClearBody
    \/ UpsertBody
    \/ UpdateBody
    \/ InnerReadBody
    \/ UpsertWrite
    \/ UpdateWrite
    \/ AddDone
    \/ PutDone
    \/ GetDone
    \/ GetAllDone
    \/ DeleteDone
    \/ ClearDone
    \/ CountDone

SpecTx == Init /\ [][NextTx]_vars

\* Operations called without a storeName while the application switches the
\* current store between a namespace the database has and one that a schema
\* upgrade adds.
CurUseStore == \E storeName \in NsStores : UseStore(storeName)

CurInvoke(op, data) == \E c \in 1..RecCalls : Invoke(c, op, 1, data, Undefined)

CurUpsert == CurInvoke("upsert", [a |-> 2, b |-> Absent])
CurUpdate == CurInvoke("update", [a |-> Absent, b |-> 1])
CurRead == CurInvoke("read", NoData)
CurReadAllData == CurInvoke("readAllData", NoData)

NextCur ==
    \/ CurUseStore
    \/ CurUpsert
    \/ CurUpdate
    \/ CurRead
    \/ CurReadAllData
    \/ CheckRequestOnSuccess
    \/ InitRequestOnSuccess
    \/ EnsureRequestOnSuccess
    \/ RequestBlocked
    \/ EnsureInitContinue
    \/ ReadBody
    \/ ReadAllDataBody
    \/ ReadAllDataContinue
    \/ UpsertBody
    \/ UpdateBody
    \/ InnerReadBody
    \/ UpsertWrite
    \/ UpdateWrite
    \/ PutDone
    \/ GetDone
    \/ GetAllDone

SpecCur == Init /\ [][NextCur]_vars

\* The registry under calls that name existing and missing stores, with an
\* engine whose open and upgrade requests can fail.
OpenUpsert ==
    \E c \in Calls : Invoke(c, "upsert", 1, [a |-> 2, b |-> Absent], "weather")

NextOpen ==
    \/ Count
    \/ OpenUpsert
    \/ CheckRequestOnSuccess
    \/ InitRequestOnSuccess
    \/ InitRequestOnError
    \/ EnsureRequestOnSuccess
    \/ EnsureRequestOnError
    \/ RequestBlocked
    \/ EnsureInitContinue
    \/ CountBody
    \/ UpsertBody
    \/ InnerReadBody
    \/ UpsertWrite
    \/ GetDone
    \/ PutDone
    \/ CountDone

SpecOpen == Init /\ [][NextOpen]_vars

\* ------------------------------------------------- decision tree evaluator
\* Numbers are integers here; a score pos / (neg + pos) is kept as the
\* fraction [num, den], and den = 0 stands for the NaN that 0 / 0 gives.
MaxDepth == 2
Features == {"sleep_hours", "stress_level"}
Thresholds == {1}
FeatureValues == {0, 1, 2}
LeafValues == {<<3, 1>>, <<0, 1>>, <<0, 0>>}
UndefinedValue == -1

Leaf(value) == [value |-> value]
Split(feature, threshold, left, right) ==
    [feature |-> feature, threshold |-> threshold, left |-> left, right |-> right]

Leaves == {Leaf(v) : v \in LeafValues}

\* The trees of depth at most d in which one child of every split is a leaf.
RECURSIVE TreesOfDepth(_)
TreesOfDepth(d) ==
    IF d = 0 THEN Leaves
    ELSE LET sub == TreesOfDepth(d - 1)
         IN  Leaves
             \cup {Split(f, t, l, r) : f \in Features, t \in Thresholds,
                                       l \in sub, r \in Leaves}
             \cup {Split(f, t, l, r) : f \in Features, t \in Thresholds,
                                       l \in Leaves, r \in sub}

Trees == TreesOfDepth(MaxDepth)

\* The samples: a value for some of the features, none for the others.
Samples ==
    UNION {[fs -> FeatureValues] : fs \in SUBSET Features}

\* sample[tree.feature]
FeatureValue(sample, feature) ==
    IF feature \in DOMAIN sample THEN sample[feature] ELSE UndefinedValue

\* Mutant: the split sends a value equal to the threshold to the right.
LessOrEqualMutant(featureValue, threshold) ==
    featureValue # UndefinedValue /\ featureValue < threshold

\* featureValue <= tree.threshold, false when featureValue is undefined
LessOrEqual(featureValue, threshold) ==
    featureValue # UndefinedValue /\ featureValue <= threshold

\* Mutant: the score is the share of the negative class.
LeafScoreMutant(value) == [num |-> value[1], den |-> value[1] + value[2]]

\* pos / (neg + pos)
LeafScore(value) == [num |-> value[2], den |-> value[1] + value[2]]

\* predictWithTree(tree, sample, features): the score, and features with
\* one entry pushed for every split visited.
RECURSIVE predictWithTree(_, _, _)
predictWithTree(tree, sample, features) ==
    IF "value" \in DOMAIN tree
      THEN [score |-> LeafScore(tree.value), features |-> features]
      ELSE LET featureValue == FeatureValue(sample, tree.feature)
               direction == IF LessOrEqual(featureValue, tree.threshold)
                              THEN "left" ELSE "right"
               pushed == Append(features,
                            [label |-> tree.feature, value |-> featureValue,
                             threshold |-> tree.threshold, direction |-> direction])
           IN  IF LessOrEqual(featureValue, tree.threshold)
                 THEN predictWithTree(tree.left, sample, pushed)
                 ELSE predictWithTree(tree.right, sample, pushed)

\* A prediction is asked for: predictWithTree is called with an empty list.
InitTree ==
    /\ StorageInit
    /\ evalPc = "called"
    /\ evalArgs \in [tree : Trees, sample : Samples]
    /\ evalResult = <<>>

PredictWithTree ==
    /\ evalPc = "called"
    /\ evalResult' = predictWithTree(evalArgs.tree, evalArgs.sample, <<>>)
    /\ evalPc' = "returned"
    /\ UNCHANGED <<dbVersion, dbStores, objects, conns, openQueue, txQueue,
                   clock, db, initPromise, currentStore, knownStores, calls,
                   microtasks, upgrades, created, lastWrite, v0, evalArgs>>

NextTree == PredictWithTree

SpecTree == InitTree /\ [][NextTree]_vars

\* ------------------------------------------------------- the bundled tree
\* Feature values are counted in units of 1/10000.  A threshold is the
\* largest multiple of 1/10000 that is not above the number in the source,
\* so that value <= threshold decides as in the source for every value that
\* is a multiple of 1/10000.  Class distributions are in units of 1/10000
\* too (0.666... and 0.333..., 0.857... and 0.142... rounded to the nearest).
model ==
    Split("sleep_hours", 71985,
        Split("prodrome_symptoms", 5000,
            Split("screen_time_hours", 66685,
                Split("sleep_hours", 69601,
                    Split("attacks_last_30_days", 95000,
                        Leaf(<<9375, 625>>),
                        Leaf(<<6800, 3200>>)),
                    Split("screen_time_hours", 45740,
                        Leaf(<<0, 10000>>),
                        Leaf(<<6667, 3333>>))),
                Split("sleep_hours", 50495,
                    Leaf(<<6667, 3333>>),
                    Split("stress_level", 5000,
                        Leaf(<<3333, 6667>>),
                        Leaf(<<0, 10000>>)))),
            Leaf(<<0, 10000>>)),
        Split("sleep_hours", 96957,
            Split("days_since_last_attack", 95000,
                Split("attacks_last_7_days", 55000,
                    Split("hydration_low", 5000,
                        Leaf(<<10000, 0>>),
                        Leaf(<<8571, 1429>>)),
                    Leaf(<<3333, 6667>>)),
                Leaf(<<3333, 6667>>)),
            Leaf(<<2500, 7500>>)))

\* The values a record of the general namespace gives to the features the
\* bundled tree tests: hours, counts of days and attacks, and 0/1 flags.
GeneralSamples ==
    [sleep_hours : {50000, 70000, 71985, 100000},
     prodrome_symptoms : {0, 10000},
     screen_time_hours : {30000, 50000, 70000},
     stress_level : {0, 10000},
     attacks_last_30_days : {20000, 100000},
     attacks_last_7_days : {0, 60000},
     days_since_last_attack : {30000, 100000},
     hydration_low : {0, 10000}]

\* predictWithTree(model, sample, features) as predictMigraneRisk calls it.
InitModel ==
    /\ StorageInit
    /\ evalPc = "called"
    /\ evalArgs \in [tree : {model}, sample : GeneralSamples]
    /\ evalResult = <<>>

SpecModel == InitModel /\ [][NextTree]_vars

\* ---------------------------------------------------------- Number values
\* A JavaScript Number is an IEEE 754 binary64 value.  Its significand does
\* not fit a machine integer here, so natural numbers are kept as lists of
\* limbs in base 2^15, least significant first, without leading zeros.
Base == 32768
LimbBits == 15
Precision == 53

RECURSIVE Pow2(_)
Pow2(n) == IF n = 0 THEN 1 ELSE 2 * Pow2(n - 1)

RECURSIVE Trim(_)
Trim(a) == IF a # <<>> /\ a[Len(a)] = 0 THEN Trim(SubSeq(a, 1, Len(a) - 1)) ELSE a

RECURSIVE NatOf(_)
NatOf(n) == IF n = 0 THEN <<>> ELSE <<n % Base>> \o NatOf(n \div Base)

RECURSIVE IntOf(_)
IntOf(a) == IF a = <<>> THEN 0 ELSE Head(a) + Base * IntOf(Tail(a))

Limb(a, i) == IF i <= Len(a) THEN a[i] ELSE 0

RECURSIVE AddFrom(_, _, _, _)
AddFrom(a, b, i, carry) ==
    IF i > Len(a) /\ i > Len(b)
      THEN IF carry = 0 THEN <<>> ELSE <<carry>>
      ELSE LET s == Limb(a, i) + Limb(b, i) + carry
           IN  <<s % Base>> \o AddFrom(a, b, i + 1, s \div Base)

NatAdd(a, b) == AddFrom(a, b, 1, 0)

\* a - b for a >= b
RECURSIVE SubFrom(_, _, _, _)
SubFrom(a, b, i, borrow) ==
    IF i > Len(a) THEN <<>>
    ELSE LET s == Limb(a, i) - Limb(b, i) - borrow
         IN  IF s < 0 THEN <<s + Base>> \o SubFrom(a, b, i + 1, 1)
                      ELSE <<s>> \o SubFrom(a, b, i + 1, 0)

NatSub(a, b) == Trim(SubFrom(a, b, 1, 0))

RECURSIVE LessFrom(_, _, _)
LessFrom(a, b, i) ==
    IF i = 0 THEN FALSE
    ELSE IF a[i] # b[i] THEN a[i] < b[i]
    ELSE LessFrom(a, b, i - 1)

NatLess(a, b) ==
    IF Len(a) # Len(b) THEN Len(a) < Len(b) ELSE LessFrom(a, b, Len(a))

\* a * d for a limb d
RECURSIVE MulSmallFrom(_, _, _, _)
MulSmallFrom(a, d, i, carry) ==
    IF i > Len(a) THEN (IF carry = 0 THEN <<>> ELSE <<carry>>)
    ELSE LET p == a[i] * d + carry
         IN  <<p % Base>> \o MulSmallFrom(a, d, i + 1, p \div Base)

NatMulSmall(a, d) == IF d = 0 THEN <<>> ELSE MulSmallFrom(a, d, 1, 0)

Zeros(n) == [i \in 1..n |-> 0]

ShiftLimbs(a, n) == IF a = <<>> THEN <<>> ELSE Zeros(n) \o a

RECURSIVE MulFrom(_, _, _)
MulFrom(a, b, i) ==
    IF i > Len(b) THEN <<>>
    ELSE NatAdd(ShiftLimbs(NatMulSmall(a, b[i]), i - 1), MulFrom(a, b, i + 1))

NatMul(a, b) == MulFrom(a, b, 1)

\* a * 2^n
Shl(a, n) == ShiftLimbs(NatMulSmall(a, Pow2(n % LimbBits)), n \div LimbBits)

\* floor(a / d) for a limb d > 0, from the most significant limb down
RECURSIVE DivSmallFrom(_, _, _, _)
DivSmallFrom(a, d, i, rem) ==
    IF i = 0 THEN <<>>
    ELSE LET x == rem * Base + a[i]
         IN  DivSmallFrom(a, d, i - 1, x % d) \o <<x \div d>>

\* floor(a / 2^n)
Shr(a, n) ==
    LET k == n \div LimbBits
        rest == IF k >= Len(a) THEN <<>> ELSE SubSeq(a, k + 1, Len(a))
    IN  Trim(DivSmallFrom(rest, Pow2(n % LimbBits), Len(rest), 0))

RECURSIVE SmallBitLen(_)
SmallBitLen(n) == IF n = 0 THEN 0 ELSE 1 + SmallBitLen(n \div 2)

BitLen(a) == IF a = <<>> THEN 0 ELSE LimbBits * (Len(a) - 1) + SmallBitLen(a[Len(a)])

IsOdd(a) == a # <<>> /\ a[1] % 2 = 1

\* floor(a / b) and whether a remainder is left, by long division on bits
RECURSIVE DivBits(_, _, _, _)
DivBits(r, b, i, q) ==
    IF i < 0 \/ Len(q) < 0  \* (the quotient is evaluated at every step)
      THEN [quot |-> q, sticky |-> r # <<>>]
    ELSE LET t == Shl(b, i)
         IN  IF NatLess(r, t) THEN DivBits(r, b, i - 1, q)
             ELSE DivBits(NatSub(r, t), b, i - 1, NatAdd(q, Shl(<<1>>, i)))

NatDiv(a, b) ==
    LET n == BitLen(a) - BitLen(b)
    IN  IF n < 0 THEN [quot |-> <<>>, sticky |-> a # <<>>]
        ELSE IF Len(b) = 1
          THEN LET q == Trim(DivSmallFrom(a, b[1], Len(a), 0))
               IN  [quot |-> q, sticky |-> NatMulSmall(q, b[1]) # a]
        ELSE DivBits(a, b, n, <<>>)

\* m * 2^e with the factors of two moved from m to e, so that m is odd
RECURSIVE Canonical(_, _, _)
Canonical(neg, m, e) ==
    IF m = <<>> THEN [neg |-> FALSE, m |-> <<>>, e |-> 0]
    ELSE IF m[1] = 0 THEN Canonical(neg, Tail(m), e + LimbBits)
    ELSE IF m[1] % 2 = 0 THEN Canonical(neg, Shr(m, 1), e + 1)
    ELSE [neg |-> neg, m |-> m, e |-> e]

\* The Number nearest to (-1)^neg * m * 2^e, ties to even.  Numbers are
\* kept as [neg, m, e] with m odd and of at most 53 bits.
RoundNumber(neg, m, e) ==
    LET s == BitLen(m) - Precision
    IN  IF s <= 0 THEN Canonical(neg, m, e)
        ELSE LET q == Shr(m, s)
                 rem == NatSub(m, Shl(q, s))
                 half == Shl(<<1>>, s - 1)
                 up == NatLess(half, rem) \/ (rem = half /\ IsOdd(q))
             IN  Canonical(neg, IF up THEN NatAdd(q, <<1>>) ELSE q, e + s)

Zero == [neg |-> FALSE, m |-> <<>>, e |-> 0]
IsZero(x) == x.m = <<>>

\* The Number of an integer literal
Number(n) == IF n < 0 THEN Canonical(TRUE, NatOf(0 - n), 0)
             ELSE Canonical(FALSE, NatOf(n), 0)

Negate(x) == IF IsZero(x) THEN x ELSE [x EXCEPT !.neg = ~x.neg]
MathAbs(x) == [x EXCEPT !.neg = FALSE]

\* x < y on the magnitudes
MagLess(x, y) ==
    LET e == IF x.e < y.e THEN x.e ELSE y.e
    IN  NatLess(Shl(x.m, x.e - e), Shl(y.m, y.e - e))

\* x + y
Plus(x, y) ==
    LET e == IF x.e < y.e THEN x.e ELSE y.e
        a == Shl(x.m, x.e - e)
        b == Shl(y.m, y.e - e)
    IN  IF IsZero(x) THEN y
        ELSE IF IsZero(y) THEN x
        ELSE IF x.neg = y.neg THEN RoundNumber(x.neg, NatAdd(a, b), e)
        ELSE IF a = b THEN Zero
        ELSE IF NatLess(a, b) THEN RoundNumber(y.neg, NatSub(b, a), e)
        ELSE RoundNumber(x.neg, NatSub(a, b), e)

Minus(x, y) == Plus(x, Negate(y))

\* x * y
Times(x, y) ==
    IF IsZero(x) \/ IsZero(y) THEN Zero
    ELSE RoundNumber(x.neg # y.neg, NatMul(x.m, y.m), x.e + y.e)

\* x / y, y # 0: the quotient is taken to 56 bits or more and a sticky bit
Divide(x, y) ==
    IF IsZero(x) THEN Zero
    ELSE LET need == Precision + 3 + BitLen(y.m) - BitLen(x.m)
             t == IF need > 0 THEN need ELSE 0
             d == NatDiv(Shl(x.m, t), y.m)
             m == NatAdd(Shl(d.quot, 1), IF d.sticky THEN <<1>> ELSE <<>>)
         IN  RoundNumber(x.neg # y.neg, m, x.e - y.e - t - 1)

\* x < y
NumberLess(x, y) ==
    IF x.neg /\ ~y.neg THEN ~(IsZero(x) /\ IsZero(y))
    ELSE IF ~x.neg /\ y.neg THEN FALSE
    ELSE IF x.neg THEN MagLess(y, x)
    ELSE MagLess(x, y)

\* Math.round(x) as an integer: floor(x + 1/2), computed exactly
MathRound(x) ==
    LET e == IF x.e < -1 THEN x.e ELSE -1
        a == Shl(x.m, x.e - e)
        half == Shl(<<1>>, -1 - e)
    IN  IF ~x.neg THEN IntOf(Shr(NatAdd(a, half), 0 - e))
        ELSE IF ~NatLess(half, a) THEN 0
        ELSE LET d == NatSub(a, half)
                 q == Shr(d, 0 - e)
             IN  IF Shl(q, 0 - e) = d THEN 0 - IntOf(q) ELSE 0 - IntOf(q) - 1

\* ------------------------------------------------------- trend analysis
\* Feature values are kept in units of 1/10000; a changePercent is kept in
\* tenths of a percent, the integer Math.round(x * 10) that is divided by 10.
\* NaN stands for the NaN that arithmetic on undefined gives.
NaN == -999999

Abs(x) == IF x < 0 THEN 0 - x ELSE x

\* The labels of a list of observations, each once, in order of first use
\* (new Set(features.map(f => f.label))).
RECURSIVE UniqueLabels(_, _)
UniqueLabels(features, seen) ==
    IF features = <<>> THEN <<>>
    ELSE IF Head(features).label \in seen
           THEN UniqueLabels(Tail(features), seen)
           ELSE <<Head(features).label>>
                \o UniqueLabels(Tail(features), seen \cup {Head(features).label})

\* Mutant: the trend of a feature without history has average 0.
StableTrendMutant(feature, value) ==
    [feature |-> feature, current |-> value, average |-> [num |-> 0, den |-> 1],
     trend |-> "stable", changePercent |-> 0]

\* The trend pushed when there is no history for the feature.
StableTrend(feature, value) ==
    [feature |-> feature, current |-> value, average |-> [num |-> value, den |-> 1],
     trend |-> "stable", changePercent |-> 0]

\* The numeric values the historical records give to a feature.
RECURSIVE HistoricalValues(_, _)
HistoricalValues(historical, featureName) ==
    IF historical = <<>> THEN <<>>
    ELSE LET v == FeatureValue(Head(historical), featureName)
             rest == HistoricalValues(Tail(historical), featureName)
         IN  IF v = UndefinedValue THEN rest ELSE <<v>> \o rest

RECURSIVE Sum(_)
Sum(values) == IF values = <<>> THEN 0 ELSE Head(values) + Sum(Tail(values))

\* The Number a value kept in units of 1/10000 stands for.
ToNumber(value) == Divide(Number(value), Number(10000))

\* historicalValues.reduce((a, b) => a + b, 0)
RECURSIVE Reduce(_)
Reduce(values) ==
    IF values = <<>> THEN Zero
    ELSE Plus(Reduce(SubSeq(values, 1, Len(values) - 1)),
              ToNumber(values[Len(values)]))

\* ((currentValue - average) / Math.abs(average)) * 100
ChangePercent(currentValue, average) ==
    Times(Divide(Minus(ToNumber(currentValue), average), MathAbs(average)),
          Number(100))

\* Mutant: the change is not divided by the average.
TrendOfMutant(featureName, currentValue, historicalValues) ==
    LET n == Len(historicalValues)
        average == Divide(Reduce(historicalValues), Number(n))
        changePercent == Times(Minus(ToNumber(currentValue), average), Number(100))
    IN  [feature |-> featureName, current |-> currentValue,
         average |-> [num |-> Sum(historicalValues), den |-> n],
         trend |-> IF NumberLess(MathAbs(changePercent), Number(5)) THEN "stable"
                   ELSE IF NumberLess(Zero, changePercent) THEN "increasing"
                   ELSE "decreasing",
         changePercent |-> MathRound(Times(changePercent, Number(10)))]

\* The trend of one feature with a non-empty list of historical values.
\* The average field keeps the sum and the count of the values; trend and
\* changePercent are computed in Number arithmetic from their quotient.
TrendOf(featureName, currentValue, historicalValues) ==
    LET n == Len(historicalValues)
        average == Divide(Reduce(historicalValues), Number(n))
        changePercent == ChangePercent(currentValue, average)
    IN  IF IsZero(average)
          THEN [feature |-> featureName, current |-> currentValue,
                average |-> [num |-> Sum(historicalValues), den |-> n],
                trend |-> "stable", changePercent |-> 0]
        ELSE IF currentValue = UndefinedValue
          THEN \* changePercent is NaN: neither |NaN| < 5 nor NaN > 0
               [feature |-> featureName, current |-> currentValue,
                average |-> [num |-> Sum(historicalValues), den |-> n],
                trend |-> "decreasing", changePercent |-> NaN]
        ELSE [feature |-> featureName, current |-> currentValue,
              average |-> [num |-> Sum(historicalValues), den |-> n],
              trend |-> IF NumberLess(MathAbs(changePercent), Number(5)) THEN "stable"
                        ELSE IF NumberLess(Zero, changePercent) THEN "increasing"
                        ELSE "decreasing",
              changePercent |-> MathRound(Times(changePercent, Number(10)))]

\* calculateTrends(current, historical, features)
calculateTrends(current, historical, features) ==
    IF Len(historical) = 0
      THEN [i \in 1..Len(features) |->
               StableTrend(features[i].label, features[i].value)]
      ELSE LET uniqueFeatures == UniqueLabels(features, {})
           IN  [k \in 1..Len(uniqueFeatures) |->
                  LET featureName == uniqueFeatures[k]
                      currentValue == FeatureValue(current, featureName)
                      historicalValues == HistoricalValues(historical, featureName)
                  IN  IF Len(historicalValues) = 0
                        THEN StableTrend(featureName, currentValue)
                        ELSE TrendOf(featureName, currentValue, historicalValues)]

\* ---------------------------------------------------------- explanation
\* value > threshold, false when value is undefined
GreaterThan(value, threshold) == value # UndefinedValue /\ value > threshold

\* The per-feature rule of the first loop of generateExplanation.
IsProblematic(f) ==
    IF f.label \in {"sleep_hours", "days_since_last_attack"}
      THEN LessOrEqual(f.value, f.threshold)
    ELSE IF f.label \in {"screen_time_hours", "prodrome_symptoms", "stress_level",
                         "attacks_last_7_days", "attacks_last_30_days",
                         "hydration_low"}
      THEN GreaterThan(f.value, f.threshold)
    ELSE FALSE

\* The filter that selects the features recommendations are made for.
NeedsRecommendation(f) ==
    \/ f.label = "sleep_hours" /\ LessOrEqual(f.value, f.threshold)
    \/ /\ f.label \in {"screen_time_hours", "prodrome_symptoms", "stress_level",
                       "hydration_low"}
       /\ GreaterThan(f.value, f.threshold)

\* trends.find(t => t.feature === label), as a list of at most one trend
FindTrend(trends, label) ==
    LET found == SelectSeq(trends, LAMBDA t : t.feature = label)
    IN  IF found = <<>> THEN <<>> ELSE <<Head(found)>>

\* The sentences one feature adds to keyFactors: its reason, and the remark
\* on its trend when the change is above 10 percent in the risky direction.
FactorsOf(f, trends) ==
    IF ~IsProblematic(f) THEN <<>>
    ELSE LET t == FindTrend(trends, f.label)
         IN  <<[label |-> f.label, says |-> "reason"]>> \o
             (IF t # <<>> /\ t[1].changePercent # NaN /\ Abs(t[1].changePercent) > 100
                THEN IF /\ t[1].trend = "increasing"
                        /\ f.label \in {"screen_time_hours", "stress_level",
                                        "prodrome_symptoms"}
                       THEN <<[label |-> f.label, says |-> "increased"]>>
                     ELSE IF t[1].trend = "decreasing" /\ f.label = "sleep_hours"
                       THEN <<[label |-> f.label, says |-> "decreased"]>>
                     ELSE <<>>
                ELSE <<>>)

RECURSIVE KeyFactors(_, _)
KeyFactors(features, trends) ==
    IF features = <<>> THEN <<>>
    ELSE FactorsOf(Head(features), trends) \o KeyFactors(Tail(features), trends)

\* score >= 0.7 ? 'high' : score >= 0.4 ? 'moderate' : 'low' (NaN is low)
RiskLevel(score) ==
    IF score.den > 0 /\ 10 * score.num >= 7 * score.den THEN "high"
    ELSE IF score.den > 0 /\ 10 * score.num >= 4 * score.den THEN "moderate"
    ELSE "low"

\* generateExplanation(score, features, trends)
generateExplanation(score, features, trends) ==
    LET keyFactors == KeyFactors(features, trends)
        problematicFeatures == SelectSeq(features, NeedsRecommendation)
        recommendations ==
            [i \in 1..Len(problematicFeatures) |-> problematicFeatures[i].label]
    IN  [summary |-> [riskLevel |-> RiskLevel(score),
                      factors |-> SubSeq(keyFactors, 1,
                                         IF Len(keyFactors) < 3 THEN Len(keyFactors) ELSE 3)],
         keyFactors |-> keyFactors,
         trends |-> trends,
         recommendations |-> IF recommendations # <<>> THEN recommendations
                             ELSE <<"continue">>]

\* ------------------------------------------------- the prediction call
\* getHistoricalData(24 * 7): the 7 days, in ticks of the model's clock
HistoryWindow == 1

\* .sort((a, b) => new Date(a.date).getTime() - new Date(b.date).getTime())
RECURSIVE SortByDate(_)
SortByDate(datas) ==
    IF datas = <<>> THEN <<>>
    ELSE LET x == Head(datas)
             rest == SortByDate(Tail(datas))
             before == SelectSeq(rest, LAMBDA y : y.date <= x.date)
             after == SelectSeq(rest, LAMBDA y : y.date > x.date)
         IN  before \o <<x>> \o after

\* getHistoricalData after "await storage.readAll('general')": the payloads
\* of the items created in the window that have a date, by date.
getHistoricalData(allItems, now) ==
    LET cutoffTime == now - HistoryWindow
        recent == SelectSeq(allItems, LAMBDA item : item.createdAt >= cutoffTime)
        datas == [i \in 1..Len(recent) |-> recent[i].data]
    IN  SortByDate(SelectSeq(datas, LAMBDA data : "date" \in DOMAIN data))

\* What predictMigraneRisk resolves with.
Prediction(score, features, trends, explanation) ==
    [score |-> score, features |-> features, trends |-> trends,
     detailedExplanation |-> explanation]

\* predictMigraneRisk(sample, includeTrends) up to its first await: the
\* tree is evaluated, then getHistoricalData calls storage.readAll('general');
\* without trends the call resolves at once.
PredictMigraneRisk(c, sample, includeTrends) ==
    /\ microtasks = <<>>
    /\ calls[c].pc = "idle"
    /\ \A d \in 1..(c - 1) : calls[d].pc # "idle"
    /\ LET out == predictWithTree(model, sample, <<>>)
           r == [IdleCall EXCEPT !.op = "predict", !.store = "general", !.stage = 1,
                                 !.data = [sample |-> sample,
                                           includeTrends |-> includeTrends],
                                 !.res = Prediction(out.score, out.features, <<>>, <<>>)]
       IN  IF includeTrends
             THEN EnsureStore(c, r, microtasks)
             ELSE /\ calls' = [calls EXCEPT ![c] =
                        [r EXCEPT !.pc = "done",
                                  !.res = Prediction(out.score, out.features, <<>>,
                                     generateExplanation(out.score, out.features, <<>>))]]
                  /\ UNCHANGED <<db, initPromise, conns, openQueue, knownStores,
                                 microtasks>>
    /\ upgrades' = IF \E d \in Calls : InFlight(d) THEN upgrades ELSE 0
    /\ UNCHANGED <<dbVersion, dbStores, objects, txQueue, clock, currentStore,
                   created, lastWrite, v0, evalVars>>

\* Mutant: the prediction clears the namespace it reads.
GetHistoricalDataBodyMutant == SimpleBody("predict", "clear", "readwrite")

\* The body of the readAll('general') that getHistoricalData calls.
GetHistoricalDataBody == SimpleBody("predict", "getAll", "readonly")

\* predictMigraneRisk after "await getHistoricalData(24 * 7)": the window
\* is cut from what readAll returned (it is empty when readAll failed), the
\* trends and the explanation are computed and the call resolves.
PredictContinue ==
    \E c \in Calls : \E now \in Now :
        /\ microtasks # <<>>
        /\ c = Head(microtasks)
        /\ calls[c].op = "predict"
        /\ calls[c].pc \in {"history", "caught"}
        /\ calls[c].pc = "caught" => now = clock
        /\ LET r == calls[c]
               historical == IF r.pc = "caught" THEN <<>>
                             ELSE getHistoricalData(r.existing, now)
               trends == calculateTrends(r.data.sample, historical, r.res.features)
               explanation == generateExplanation(r.res.score, r.res.features, trends)
           IN  calls' = [calls EXCEPT ![c] =
                  [r EXCEPT !.pc = "done", !.now = now, !.existing = historical,
                            !.res = Prediction(r.res.score, r.res.features, trends,
                                               explanation)]]
        /\ clock' = now
        /\ microtasks' = Tail(microtasks)
        /\ UNCHANGED <<dbVersion, dbStores, objects, txQueue, currentStore,
                       upgrades, created, lastWrite, v0, evalVars, registryVars>>

\* The records the application keeps in the general namespace: one per
\* day, with the day's features (a collector may leave a feature out).
GeneralRecords ==
    {[date |-> 1, sleep_hours |-> 70000, prodrome_symptoms |-> 0,
      screen_time_hours |-> 30000, stress_level |-> 0,
      attacks_last_30_days |-> 20000, attacks_last_7_days |-> 0,
      days_since_last_attack |-> 100000, hydration_low |-> 0],
     [date |-> 2, sleep_hours |-> 50000, screen_time_hours |-> 70000,
      attacks_last_30_days |-> 100000]}

\* The records predictions are asked for.
PredictSamples ==
    {[sleep_hours |-> 50000, prodrome_symptoms |-> 0, screen_time_hours |-> 30000,
      stress_level |-> 0, attacks_last_30_days |-> 20000, attacks_last_7_days |-> 0,
      days_since_last_attack |-> 100000, hydration_low |-> 0],
     [sleep_hours |-> 100000, prodrome_symptoms |-> 10000, screen_time_hours |-> 70000,
      stress_level |-> 10000, attacks_last_30_days |-> 20000, attacks_last_7_days |-> 0,
      days_since_last_attack |-> 30000, hydration_low |-> 10000],
     [sleep_hours |-> 70000, screen_time_hours |-> 70000]}

\* What earlier sessions left in the general namespace.
PriorGeneral ==
    {<<>>,
     <<[id |-> 1, createdAt |-> 1, updatedAt |-> 1,
        data |-> [date |-> 1, sleep_hours |-> 100000, prodrome_symptoms |-> 0,
                  screen_time_hours |-> 30000]]>>,
     <<[id |-> 1, createdAt |-> 1, updatedAt |-> 1,
        data |-> [date |-> 2, sleep_hours |-> 60000, screen_time_hours |-> 0]],
       [id |-> 2, createdAt |-> 1, updatedAt |-> 1,
        data |-> [date |-> 1, sleep_hours |-> 40000, screen_time_hours |-> 0]]>>}

\* The state after "new IndexedDBStorage()", with the general namespace as
\* earlier sessions left it.
InitPredict ==
    /\ dbVersion \in PriorVersions
    /\ dbStores = IF dbVersion = 0 THEN {} ELSE {DEFAULT_STORE_NAME, "migraines"}
    /\ \E prior \in PriorGeneral :
          /\ prior # <<>> => dbVersion # 0
          /\ objects = [ns \in StoreNames |-> [i \in Ids |->
                IF ns = "general" /\ i \in DOMAIN prior THEN prior[i] ELSE Null]]
    /\ conns = <<>>
    /\ openQueue = <<>>
    /\ txQueue = [ns \in StoreNames |-> <<>>]
    /\ clock = 1
    /\ db = NoHandle
    /\ initPromise = 0
    /\ currentStore = DEFAULT_STORE_NAME
    /\ knownStores = {DEFAULT_STORE_NAME, "migraines"}
    /\ calls = [c \in Calls |-> IdleCall]
    /\ microtasks = <<>>
    /\ upgrades = 0
    /\ created = [ns \in StoreNames |-> 0]
    /\ lastWrite = [ns \in StoreNames |-> [i \in Ids |-> 0]]
    /\ v0 = dbVersion
    /\ evalPc = "none"
    /\ evalArgs = <<>>
    /\ evalResult = <<>>

Predict ==
    \E c \in 1..RecCalls : \E sample \in PredictSamples : \E includeTrends \in BOOLEAN :
        PredictMigraneRisk(c, sample, includeTrends)

\* The application stores the record of a day while predictions run.
UpsertGeneral ==
    \E c \in 1..RecCalls : \E id \in RecIds : \E data \in GeneralRecords :
        Invoke(c, "upsert", id, data, "general")

NextPredict ==
    \/ Predict
    \/ UpsertGeneral
    \/ CheckRequestOnSuccess
    \/ InitRequestOnSuccess
    \/ EnsureInitContinue
    \/ GetHistoricalDataBody
    \/ GetAllDone
    \/ GetAllError
    \/ PredictContinue
    \/ UpsertBody
    \/ InnerReadBody
    \/ UpsertWrite
    \/ GetDone
    \/ PutDone

SpecPredict == InitPredict /\ [][NextPredict]_vars

\* ------------------------------------------------------------ top drivers
\* Magnitudes and scores are fractions [num, den] with den > 0, or the NaN
\* fraction (den = 0) that arithmetic on an undefined value gives.
NaNFraction == [num |-> 0, den |-> 0]

IsNaN(x) == x.den = 0

Max(a, b) == IF a < b THEN b ELSE a

\* a / b < c / d for a, c >= 0 and b, d > 0, by continued fractions (the
\* products a * d and c * b are too large for the checker's integers)
RECURSIVE FractionLess(_, _, _, _)
FractionLess(a, b, c, d) ==
    IF a \div b # c \div d THEN a \div b < c \div d
    ELSE IF c % d = 0 THEN FALSE
    ELSE IF a % b = 0 THEN TRUE
    ELSE FractionLess(d, c % d, b, a % b)

\* x < y as JavaScript compares numbers: false when either is NaN
Less(x, y) == ~IsNaN(x) /\ ~IsNaN(y) /\ FractionLess(x.num, x.den, y.num, y.den)

\* Math.max(0.1, Math.abs(f.threshold || 0.1)), in units of 1/10000
ThresholdSafe(threshold) == Max(1000, IF threshold = 0 THEN 1000 ELSE Abs(threshold))

\* The risk-aligned magnitude of an observation:
\* Math.max(0, (threshold - value) / thresholdSafe) for left, and
\* Math.max(0, (value - threshold) / thresholdSafe) for right.
Magnitude(f) ==
    IF f.value = UndefinedValue THEN NaNFraction
    ELSE [num |-> IF f.direction = "left" THEN Max(0, f.threshold - f.value)
                                           ELSE Max(0, f.value - f.threshold),
          den |-> ThresholdSafe(f.threshold)]

\* The first loop of computeTopDrivers: the map from label to the entry
\* kept for it, as a list in insertion order.
RECURSIVE Deduplicate(_, _)
Deduplicate(features, map) ==
    IF features = <<>> THEN map
    ELSE LET f == Head(features)
             magnitude == Magnitude(f)
             at == {i \in 1..Len(map) : map[i].feature.label = f.label}
         IN  IF at = {}
               THEN Deduplicate(Tail(features),
                                Append(map, [feature |-> f, magnitude |-> magnitude]))
               ELSE LET i == CHOOSE j \in at : TRUE
                    IN  IF Less(map[i].magnitude, magnitude)
                          THEN Deduplicate(Tail(features),
                                  [map EXCEPT ![i] = [feature |-> f,
                                                      magnitude |-> magnitude]])
                          ELSE Deduplicate(Tail(features), map)

\* The weight of a trend for a direction, in thousandths.
Weight(t, direction) ==
    IF t = <<>> THEN 1000
    ELSE LET w == IF \/ t[1].trend = "decreasing" /\ direction = "left"
                     \/ t[1].trend = "increasing" /\ direction = "right"
                    THEN 1200
                  ELSE IF \/ t[1].trend = "increasing" /\ direction = "left"
                          \/ t[1].trend = "decreasing" /\ direction = "right"
                    THEN 900
                  ELSE 1000
             absChange == IF t[1].changePercent = NaN THEN 0
                          ELSE Abs(t[1].changePercent)
         IN  IF absChange > 200 THEN (w * 11) \div 10 ELSE w

\* The driver pushed for one entry of the map, before normalisation.
Driver(entry, trends) ==
    LET f == entry.feature
        base == Magnitude(f)
        t == FindTrend(trends, f.label)
        rawScore == IF IsNaN(base) THEN NaNFraction
                    ELSE [num |-> base.num * Weight(t, f.direction),
                          den |-> base.den * 1000]
    IN  [label |-> f.label, current |-> f.value, threshold |-> f.threshold,
         direction |-> f.direction, score |-> rawScore, rawScore |-> rawScore,
         trend |-> t]

\* Math.max(...drivers.map(d => d.rawScore), 0.000001)
RECURSIVE MaxRaw(_)
MaxRaw(drivers) ==
    IF drivers = <<>> THEN [num |-> 1, den |-> 1000000]
    ELSE LET m == MaxRaw(Tail(drivers))
             x == Head(drivers).rawScore
         IN  IF IsNaN(x) \/ IsNaN(m) THEN NaNFraction
             ELSE IF Less(m, x) THEN x ELSE m

\* Math.min(1, rawScore / maxRaw): the quotient is kept as the pair of its
\* terms, [num |-> rawScore, den |-> maxRaw], and 1 as maxRaw / maxRaw.
Normalized(rawScore, maxRaw) ==
    IF IsNaN(rawScore) \/ IsNaN(maxRaw) THEN [num |-> NaNFraction, den |-> NaNFraction]
    ELSE IF Less(maxRaw, rawScore) THEN [num |-> maxRaw, den |-> maxRaw]
    ELSE [num |-> rawScore, den |-> maxRaw]

\* a.score < b.score for two scores normalised by the same maxRaw
ScoreLess(a, b) == Less(a.num, b.num)

\* drivers.sort((a, b) => b.score - a.score): stable, descending; scores
\* that are NaN compare as equal
RECURSIVE SortByScore(_)
SortByScore(drivers) ==
    IF drivers = <<>> THEN <<>>
    ELSE LET x == Head(drivers)
             rest == SortByScore(Tail(drivers))
             before == SelectSeq(rest, LAMBDA y : ScoreLess(x.score, y.score))
             after == SelectSeq(rest, LAMBDA y : ~ScoreLess(x.score, y.score))
         IN  before \o <<x>> \o after

\* computeTopDrivers(features, trends) up to the sort: every driver, ranked
RankedDrivers(features, trends) ==
    LET map == Deduplicate(features, <<>>)
        drivers == [i \in 1..Len(map) |-> Driver(map[i], trends)]
        maxRaw == MaxRaw(drivers)
    IN  SortByScore([i \in 1..Len(drivers) |->
            [drivers[i] EXCEPT !.score = Normalized(drivers[i].rawScore, maxRaw)]])

\* computeTopDrivers(features, trends)
computeTopDrivers(features, trends) ==
    IF features = <<>> THEN <<>>
    ELSE LET drivers == RankedDrivers(features, trends)
         IN  SubSeq(drivers, 1, IF Len(drivers) < 3 THEN Len(drivers) ELSE 3)

\* The risk meter is given a prediction: the bundled tree is evaluated on
\* a record, the trends are computed from a history, the drivers are ranked.
Histories ==
    {<<>>,
     <<[date |-> 1, sleep_hours |-> 70000, prodrome_symptoms |-> 0,
        screen_time_hours |-> 20000, attacks_last_30_days |-> 20000,
        attacks_last_7_days |-> 10000, days_since_last_attack |-> 100000,
        hydration_low |-> 0]>>,
     <<[date |-> 1, sleep_hours |-> 80000, screen_time_hours |-> 80000,
        days_since_last_attack |-> 20000],
       [date |-> 2, sleep_hours |-> 90000, screen_time_hours |-> 90000,
        attacks_last_30_days |-> 50000, days_since_last_attack |-> 20000]>>}

InitDrivers ==
    /\ StorageInit
    /\ evalPc = "called"
    /\ evalArgs \in [tree : {model}, sample : GeneralSamples \cup PredictSamples,
                     historical : Histories]
    /\ evalResult = <<>>

ComputeTopDrivers ==
    /\ evalPc = "returned"
    /\ "historical" \in DOMAIN evalArgs
    /\ LET trends == calculateTrends(evalArgs.sample, evalArgs.historical,
                                     evalResult.features)
       IN  evalResult' = [score |-> evalResult.score,
                          features |-> evalResult.features,
                          trends |-> trends,
                          ranked |-> RankedDrivers(evalResult.features, trends),
                          topDrivers |-> computeTopDrivers(evalResult.features, trends)]
    /\ evalPc' = "ranked"
    /\ UNCHANGED <<dbVersion, dbStores, objects, conns, openQueue, txQueue,
                   clock, db, initPromise, currentStore, knownStores, calls,
                   microtasks, upgrades, created, lastWrite, v0, evalArgs>>

NextDrivers ==
    \/ PredictWithTree
    \/ ComputeTopDrivers

SpecDrivers == InitDrivers /\ [][NextDrivers]_vars

\* ------------------------------------------------------- trends of a path
\* calculateTrends is given a record, a history and the path of the record,
\* and then the same data in another unit: every value times a constant.
Scales == {2, 3, 10, 100}

TrendSamples ==
    [sleep_hours : {0, 31500, 52480, 63000, 80000},
     prodrome_symptoms : {0},
     screen_time_hours : {21000, 63000},
     stress_level : {0},
     attacks_last_30_days : {20000},
     attacks_last_7_days : {0},
     days_since_last_attack : {100000},
     hydration_low : {0}]

TrendHistories ==
    {<<[date |-> 1, sleep_hours |-> a, prodrome_symptoms |-> 0,
        screen_time_hours |-> 20000, days_since_last_attack |-> 30000]>> :
        a \in {0, 30000, 50000, 80000}}
    \cup
    {<<[date |-> 1, sleep_hours |-> a, prodrome_symptoms |-> 0,
        screen_time_hours |-> 20000],
       [date |-> 2, prodrome_symptoms |-> 10000, screen_time_hours |-> 20000],
       [date |-> 3, sleep_hours |-> 70000, screen_time_hours |-> 30000]>> :
        a \in {60000, 90000}}

\* The record with every feature value multiplied by k.
Scaled(record, k) ==
    [f \in DOMAIN record |-> IF f = "date" THEN record[f] ELSE k * record[f]]

InitTrends ==
    /\ StorageInit
    /\ evalPc = "called"
    /\ evalArgs \in [tree : {model}, sample : TrendSamples,
                     past : TrendHistories, scale : Scales]
    /\ evalResult = <<>>

CalculateTrends ==
    /\ evalPc = "returned"
    /\ "past" \in DOMAIN evalArgs
    /\ evalResult' = [score |-> evalResult.score,
                      features |-> evalResult.features,
                      trends |-> calculateTrends(evalArgs.sample, evalArgs.past,
                                                 evalResult.features)]
    /\ evalPc' = "trends"
    /\ UNCHANGED <<dbVersion, dbStores, objects, conns, openQueue, txQueue,
                   clock, db, initPromise, currentStore, knownStores, calls,
                   microtasks, upgrades, created, lastWrite, v0, evalArgs>>

CalculateScaledTrends ==
    /\ evalPc = "trends"
    /\ LET k == evalArgs.scale
           features == [i \in 1..Len(evalResult.features) |->
                          [evalResult.features[i] EXCEPT !.value = k * @]]
           past == [i \in 1..Len(evalArgs.past) |-> Scaled(evalArgs.past[i], k)]
       IN  evalResult' = [score |-> evalResult.score,
                          features |-> evalResult.features,
                          trends |-> evalResult.trends,
                          scaled |-> calculateTrends(Scaled(evalArgs.sample, k),
                                                     past, features)]
    /\ evalPc' = "scaled"
    /\ UNCHANGED <<dbVersion, dbStores, objects, conns, openQueue, txQueue,
                   clock, db, initPromise, currentStore, knownStores, calls,
                   microtasks, upgrades, created, lastWrite, v0, evalArgs>>

NextTrends ==
    \/ PredictWithTree
    \/ CalculateTrends
    \/ CalculateScaledTrends

SpecTrends == InitTrends /\ [][NextTrends]_vars

\* ----------------------------------------------------------------- claims
Invoked == {c \in Calls : calls[c].pc # "idle"}
Settled == {c \in Calls : calls[c].pc \in {"done", "failed"}}
PriorStores == IF v0 = 0 THEN {} ELSE {DEFAULT_STORE_NAME, "migraines"}

\* The open requests in flight that ask for a version (upgrade requests).
UpgradeRequests == {i \in 1..Len(openQueue) : openQueue[i].version # 0}

\* C1: whenever an operation opens its transaction on namespace ns, ns
\* exists in the handle it uses: no call is rejected because
\* db.transaction([ns]) found no object store ns in the handle (NotFoundError).
C1_NamespaceMissing ==
    \A c \in Calls : calls[c].error # "NotFoundError"

\* C2: concurrent ensureStore calls are coalesced into one physical upgrade:
\* the calls of one group (calls that overlap in time) make the engine run
\* at most one upgrade transaction, and at most one upgrade request is in
\* flight at any time.
C2_OneUpgradePerGroup ==
    /\ upgrades <= 1
    /\ Cardinality(UpgradeRequests) <= 1

\* C3: namespace creation is idempotent: when every call made so far named
\* the same namespace ns, missing when the instance was constructed (the
\* database itself may be missing), and all of them have settled, the schema
\* version has risen by exactly one and ns was created exactly once.
C3_OneIncrement ==
    \A ns \in StoreNames \ PriorStores :
        (/\ Invoked # {}
         /\ Invoked = Settled
         /\ \A c \in Invoked : calls[c].store = ns)
        => (dbVersion = v0 + 1 /\ created[ns] = 1)

\* C9: when the engine reports an open or upgrade request as blocked by
\* another open connection, the operation that issued it fails with
\* EngineBlocked.
C9_BlockedRejects ==
    \A i \in 1..Len(openQueue) :
        openQueue[i].blocked =>
            /\ calls[openQueue[i].by].pc = "failed"
            /\ calls[openQueue[i].by].error = "EngineBlocked"

\* The request the engine completes in this step on ns is of the given type.
Applies(ns, type) ==
    /\ txQueue[ns] # <<>>
    /\ Head(txQueue[ns]).type = type
    /\ txQueue'[ns] = Tail(txQueue[ns])

\* C4: update never creates a record: when the id is absent from ns at the
\* moment the write of an update is applied, the update fails with NotFound
\* and ns still holds no record for the id.
C4_UpdateNeverCreates ==
    [][\A ns \in StoreNames :
          LET q == Head(txQueue[ns])
          IN  (/\ Applies(ns, "put")
               /\ calls[q.by].op = "update"
               /\ objects[ns][q.id] = Null)
              => (/\ calls'[q.by].error = "NotFound"
                  /\ objects'[ns][q.id] = Null)]_vars

\* C5: an update is one atomic transaction: when two update calls on one
\* id with disjoint partial payloads were the only calls and both completed,
\* the stored record holds the fields of both payloads.
C5_AtomicUpdates ==
    \A c, d \in Calls :
        (/\ Invoked = {c, d} /\ c # d
         /\ calls[c].pc = "done" /\ calls[d].pc = "done"
         /\ calls[c].op = "update" /\ calls[d].op = "update"
         /\ calls[c].store = calls[d].store /\ calls[c].id = calls[d].id
         /\ \A f \in Fields : calls[c].data[f] = Absent \/ calls[d].data[f] = Absent)
        => \A f \in Fields :
              /\ calls[c].data[f] # Absent
                    => objects[calls[c].store][calls[c].id].data[f] = calls[c].data[f]
              /\ calls[d].data[f] # Absent
                    => objects[calls[c].store][calls[c].id].data[f] = calls[d].data[f]

\* C6: createdAt is fixed at the first insertion: while only upsert and
\* update calls are made, a step that leaves a record in place (no delete
\* in between) leaves its createdAt unchanged.
C6_CreatedAtFixed ==
    [][(\A c \in Invoked : calls[c].op \in {"upsert", "update"})
       => \A ns \in StoreNames : \A i \in Ids :
             (objects[ns][i] # Null /\ objects'[ns][i] # Null)
             => objects'[ns][i].createdAt = objects[ns][i].createdAt]_vars

\* C7: the add of a create on an id that exists in ns fails with
\* DuplicateKey and leaves the stored record (payload, createdAt, updatedAt)
\* unchanged; on an absent id it inserts the payload with
\* createdAt = updatedAt.
C7_CreateDuplicate ==
    [][\A ns \in StoreNames :
          LET q == Head(txQueue[ns])
          IN  Applies(ns, "add") =>
                IF objects[ns][q.id] # Null
                  THEN /\ calls'[q.by].pc = "failed"
                       /\ calls'[q.by].error = "DuplicateKey"
                       /\ objects' = objects
                  ELSE /\ calls'[q.by].pc = "done"
                       /\ objects'[ns][q.id].id = q.id
                       /\ objects'[ns][q.id].data = calls[q.by].data
                       /\ objects'[ns][q.id].createdAt = objects'[ns][q.id].updatedAt]_vars

\* C7 witness: a create was rejected as a duplicate, and another one inserted.
C7_Witness ==
    \E c, d \in Calls :
        /\ calls[c].op = "create" /\ calls[c].error = "DuplicateKey"
        /\ calls[d].op = "create" /\ calls[d].pc = "done"

\* C8: a read(Data) applied after the write of upsert(id, data, ns), with no
\* other write to the id in between, returns exactly the upserted payload,
\* whether or not the record existed before.
C8_UpsertThenRead ==
    [][\A ns \in StoreNames :
          LET q == Head(txQueue[ns])
              w == lastWrite[ns][q.id]
          IN  (/\ Applies(ns, "get")
               /\ calls[q.by].op = "read"
               /\ w # 0
               /\ calls[w].op = "upsert")
              => (/\ calls'[q.by].pc = "done"
                  /\ Len(calls'[q.by].res) = 1
                  /\ calls'[q.by].res[1].data = calls[w].data)]_vars

\* C8 witness: a read that was called after an upsert had completed
\* returned the payload of that upsert.
C8_Witness ==
    \E c, d \in Calls :
        /\ c < d
        /\ calls[c].op = "upsert" /\ calls[c].pc = "done"
        /\ calls[d].op = "read" /\ calls[d].pc = "done"
        /\ lastWrite[calls[d].store][calls[d].id] = c
        /\ calls[d].res # <<>>
        /\ calls[d].res[1].data = calls[c].data

\* The features a tree tests.
RECURSIVE TestedFeatures(_)
TestedFeatures(tree) ==
    IF "value" \in DOMAIN tree THEN {}
    ELSE {tree.feature} \cup TestedFeatures(tree.left) \cup TestedFeatures(tree.right)

\* No leaf of the tree has the distribution (0, 0).
RECURSIVE NoDegenerateLeaf(_)
NoDegenerateLeaf(tree) ==
    IF "value" \in DOMAIN tree THEN tree.value[1] + tree.value[2] > 0
    ELSE NoDegenerateLeaf(tree.left) /\ NoDegenerateLeaf(tree.right)

InUnitInterval(score) == score.den > 0 /\ 0 <= score.num /\ score.num <= score.den

\* path holds one observation per split on the way from the root of tree
\* to a leaf, in order: each names the split's feature and threshold and
\* the sample's value, is left exactly when value <= threshold, and the
\* walk continues in the child its direction names.
RECURSIVE PathFollows(_, _, _)
PathFollows(tree, sample, path) ==
    IF "value" \in DOMAIN tree THEN path = <<>>
    ELSE /\ path # <<>>
         /\ Head(path).label = tree.feature
         /\ Head(path).threshold = tree.threshold
         /\ Head(path).value = sample[tree.feature]
         /\ Head(path).direction \in {"left", "right"}
         /\ Head(path).direction = "left" <=> Head(path).value <= Head(path).threshold
         /\ PathFollows(IF Head(path).direction = "left" THEN tree.left ELSE tree.right,
                        sample, Tail(path))

C11_Example ==
    (/\ evalPc = "returned"
     /\ evalArgs.tree = model
     /\ evalArgs.sample.sleep_hours = 50000
     /\ evalArgs.sample.prodrome_symptoms = 0
     /\ evalArgs.sample.screen_time_hours = 30000
     /\ evalArgs.sample.attacks_last_30_days = 20000)
    => (/\ [i \in 1..Len(evalResult.features) |->
              <<evalResult.features[i].label, evalResult.features[i].direction>>]
           = << <<"sleep_hours", "left">>, <<"prodrome_symptoms", "left">>,
                <<"screen_time_hours", "left">>, <<"sleep_hours", "left">>,
                <<"attacks_last_30_days", "left">> >>
        /\ evalResult.score.num * 10000 = 625 * evalResult.score.den
        /\ evalResult.score.den # 0)

\* C11 witness: the record of the example was evaluated on the bundled tree.
C11_Witness ==
    /\ evalPc = "returned"
    /\ evalArgs.tree = model
    /\ evalArgs.sample.sleep_hours = 50000
    /\ evalArgs.sample.prodrome_symptoms = 0
    /\ evalArgs.sample.screen_time_hours = 30000
    /\ evalArgs.sample.attacks_last_30_days = 20000
    /\ Len(evalResult.features) = 5
    /\ evalResult.score = [num |-> 625, den |-> 10000]

\* C18: when the record has no value for the feature a visited split tests,
\* the evaluation fails with MissingFeature: it records no observation with
\* an undefined value and returns no score.
C18_MissingFeature ==
    evalPc = "returned" =>
        \/ "error" \in DOMAIN evalResult
        \/ \A i \in 1..Len(evalResult.features) :
              evalResult.features[i].value # UndefinedValue

\* The calls of predictMigraneRisk that asked for trends and have resolved.
Predicted ==
    {c \in Calls : /\ calls[c].op = "predict"
                   /\ calls[c].pc = "done"
                   /\ calls[c].data.includeTrends}

PathLabels(c) ==
    {calls[c].res.features[i].label : i \in 1..Len(calls[c].res.features)}

\* C12: the trends computed for a prediction hold exactly one Trend per
\* unique feature label of the path, whether the historical window is
\* empty or not and whether the path visits a feature once or several times.
C12_OneTrendPerLabel ==
    \A c \in Predicted :
        LET trends == calls[c].res.trends
        IN  /\ {trends[i].feature : i \in 1..Len(trends)} = PathLabels(c)
            /\ Len(trends) = Cardinality(PathLabels(c))

\* C13: an empty historical window is a valid input: every Trend computed
\* from it is stable with average equal to the current value (the value the
\* record gives the feature) and changePercent 0, and no prediction call
\* fails.
C13_EmptyWindow ==
    \A c \in Calls :
        calls[c].op = "predict" =>
            /\ calls[c].pc # "failed"
            /\ (c \in Predicted /\ calls[c].existing = <<>>) =>
                  \A i \in 1..Len(calls[c].res.trends) :
                      LET t == calls[c].res.trends[i]
                      IN  /\ t.trend = "stable"
                          /\ t.changePercent = 0
                          /\ t.current = FeatureValue(calls[c].data.sample, t.feature)
                          /\ t.average = [num |-> t.current, den |-> 1]

\* C13 witness: a prediction resolved with trends computed from an empty
\* window although the namespace held a record, and another resolved after
\* its readAll had failed.
C13_Witness ==
    \E c \in Predicted :
        /\ calls[c].existing = <<>>
        /\ Len(calls[c].res.trends) > 1
        /\ calls[c].res.detailedExplanation.trends = calls[c].res.trends
        /\ objects["general"][1] # Null

\* C17: the prediction call is a read-only consumer: the only request it
\* issues is a readonly getAll, and no step in which a prediction call
\* advances changes the records of any namespace.
C17_ReadOnly ==
    [][/\ (\E c \in Calls : calls'[c].op = "predict" /\ calls'[c] # calls[c])
              => objects' = objects
       /\ \A ns \in StoreNames : \A i \in 1..Len(txQueue'[ns]) :
              calls'[txQueue'[ns][i].by].op = "predict"
                  => (txQueue'[ns][i].type = "getAll" /\ txQueue'[ns][i].mode = "readonly")
      ]_vars

\* C17 witness: a prediction with trends and one without have resolved
\* while the general namespace holds a record.
C17_Witness ==
    /\ \E c \in Predicted : calls[c].existing # <<>>
    /\ \E c \in Calls : /\ calls[c].op = "predict" /\ calls[c].pc = "done"
                        /\ ~calls[c].data.includeTrends
    /\ objects["general"][1] # Null

\* A normalised score is a number between 0 and 1.
ScoreInUnitInterval(score) ==
    /\ ~IsNaN(score.num) /\ ~IsNaN(score.den)
    /\ score.num.num >= 0
    /\ score.den.num > 0
    /\ ~Less(score.den, score.num)

\* C14: computeTopDrivers returns at most 3 drivers with pairwise distinct
\* labels, each with a normalised score in [0,1], in descending order of
\* score, and no driver left out has a larger score than one kept.
C14_TopDrivers ==
    evalPc = "ranked" =>
        LET top == evalResult.topDrivers
            all == evalResult.ranked
        IN  /\ Len(top) <= 3
            /\ \A i, j \in 1..Len(top) : i # j => top[i].label # top[j].label
            /\ \A i \in 1..Len(top) : ScoreInUnitInterval(top[i].score)
            /\ \A i, j \in 1..Len(top) : i < j => ~ScoreLess(top[i].score, top[j].score)
            /\ \A i \in 1..Len(top) : \A j \in 1..Len(all) :
                  (\A k \in 1..Len(top) : all[j].label # top[k].label)
                      => ~ScoreLess(top[i].score, all[j].score)

\* C15: upsert is idempotent: when the put of an upsert is applied to a
\* record whose last write was an upsert with the same (id, data), the
\* namespace keeps the same records, and the record keeps its payload and
\* its createdAt; only updatedAt may change.
C15_UpsertIdempotent ==
    [][\A ns \in StoreNames :
          LET q == Head(txQueue[ns])
              w == lastWrite[ns][q.id]
          IN  (/\ Applies(ns, "put")
               /\ calls[q.by].op = "upsert"
               /\ w # 0 /\ w # q.by
               /\ calls[w].op = "upsert"
               /\ calls[w].data = calls[q.by].data)
              => (/\ {i \in Ids : objects'[ns][i] # Null} = {i \in Ids : objects[ns][i] # Null}
                  /\ objects'[ns][q.id].data = objects[ns][q.id].data
                  /\ objects'[ns][q.id].createdAt = objects[ns][q.id].createdAt)]_vars

\* The write requests of call c that the engine has not completed yet.
PendingWrites(c) ==
    {<<ns, i>> \in StoreNames \X (1..NumCalls) :
        /\ i <= Len(txQueue[ns])
        /\ txQueue[ns][i].by = c
        /\ txQueue[ns][i].mode = "readwrite"}

\* C16: storage errors are surfaced and never swallowed: an operation on
\* whose behalf an engine request has failed (the probe open of
\* getDatabaseInfo, the read of upsert) does not resolve and writes nothing:
\* it has no write request in flight and no write of its own applied.
C16_ErrorsSurface ==
    \A c \in Calls :
        calls[c].engineError =>
            /\ calls[c].pc # "done"
            /\ PendingWrites(c) = {}
            /\ \A ns \in StoreNames : \A i \in Ids : lastWrite[ns][i] # c

\* The ids of the records ns holds.
Stored(ns) == {i \in Ids : objects[ns][i] # Null}

\* items is every record of ns, in strictly ascending order of id.
EveryRecordAscending(items, ns) ==
    /\ Len(items) = Cardinality(Stored(ns))
    /\ \A i \in Stored(ns) : \E k \in 1..Len(items) : items[k] = objects[ns][i]
    /\ \A k \in 1..(Len(items) - 1) : items[k].id < items[k + 1].id

\* C19: readAll resolves with every record the namespace holds when its
\* getAll request completes, in strictly ascending order of id; readAllData
\* resolves with the payloads of those records, in the same order.
C19_ReadAllSorted ==
    [][/\ \A ns \in StoreNames :
            LET c == Head(txQueue[ns]).by
            IN  /\ (Applies(ns, "getAll") /\ calls'[c].pc = "done")
                      => EveryRecordAscending(calls'[c].res, ns)
                /\ (Applies(ns, "getAll") /\ calls'[c].pc = "items")
                      => EveryRecordAscending(calls'[c].existing, ns)
       /\ \A c \in Calls :
            (calls[c].pc = "items" /\ calls'[c].pc = "done")
               => /\ Len(calls'[c].res) = Len(calls[c].existing)
                  /\ \A k \in 1..Len(calls[c].existing) :
                        calls'[c].res[k] = calls[c].existing[k].data]_vars

\* A readAll has returned two records that were created in descending
\* order of id.
C19_Witness ==
    \E c \in Calls :
        /\ calls[c].op = "readAll" /\ calls[c].pc = "done"
        /\ Len(calls[c].res) = 2
        /\ calls[c].res[2].createdAt < calls[c].res[1].createdAt

\* The step applies a write request of a call whose target namespace is ns.
WritesTo(ns) ==
    /\ txQueue[ns] # <<>>
    /\ txQueue'[ns] = Tail(txQueue[ns])
    /\ Head(txQueue[ns]).mode = "readwrite"
    /\ calls[Head(txQueue[ns]).by].store = ns
    /\ calls[Head(txQueue[ns]).by].op \in
          {"create", "upsert", "update", "delete", "deleteAll", "clear"}

\* C20: operations on different namespaces are independent: the records of
\* a namespace B change only in a step that applies a write request of an
\* operation called on B itself; a write on another namespace A, and a
\* schema upgrade that adds a namespace, leave the records of B as they are.
C20_NamespacesIndependent ==
    [][\A B \in StoreNames :
          /\ objects'[B] # objects[B] => WritesTo(B)
          /\ dbStores' # dbStores => objects'[B] = objects[B]]_vars

\* An upgrade has added the weather namespace, which holds a record, and a
\* deleteAll or clear on general has emptied general.
C20_Witness ==
    /\ created["weather"] = 1
    /\ objects["weather"][1] # Null
    /\ v0 = 2
    /\ \E c \in Calls :
          /\ calls[c].op \in {"deleteAll", "clear"}
          /\ calls[c].store = DEFAULT_STORE_NAME
          /\ calls[c].pc = "done"
          /\ lastWrite[DEFAULT_STORE_NAME][1] = c

WithHistory ==
    {i \in 1..Len(evalResult.trends) :
        HistoricalValues(evalArgs.past, evalResult.trends[i].feature) # <<>>}

\* 1000 * (current - average) / |average| is 1000 * ChangeNum(i) / AverageMagnitude(i)
ChangeNum(i) ==
    LET t == evalResult.trends[i]
    IN  1000 * (t.current * t.average.den - t.average.num)

AverageMagnitude(i) == Abs(evalResult.trends[i].average.num)

HandleOpen == db # NoHandle
HandleOpening ==
    \/ initPromise # 0
    \/ \E i \in 1..Len(openQueue) : openQueue[i].kind \in {"probe", "init"}
HandleUpgrading == \E i \in 1..Len(openQueue) : openQueue[i].kind = "ensure"

HandleState ==
    IF HandleOpen /\ ~HandleOpening /\ ~HandleUpgrading THEN "open"
    ELSE IF ~HandleOpen /\ HandleOpening /\ ~HandleUpgrading THEN "opening"
    ELSE IF ~HandleOpen /\ ~HandleOpening /\ HandleUpgrading THEN "upgrading"
    ELSE IF ~HandleOpen /\ ~HandleOpening /\ ~HandleUpgrading THEN "closed"
    ELSE "mixed"

HandleTransitions ==
    {<<"closed", "opening">>, <<"opening", "open">>,
     <<"open", "upgrading">>, <<"upgrading", "open">>}

\* C22: the handle of the registry is always in exactly one of closed,
\* opening, open, upgrading, and it changes state only closed -> opening
\* -> open and open -> upgrading -> open.
C22_HandleStates ==
    /\ [](HandleState # "mixed")
    /\ [][HandleState' # HandleState =>
             <<HandleState, HandleState'>> \in HandleTransitions]_vars

\* Call c enters ensureStore in this step, for its operation or for the
\* read inside its upsert or update.
EntersEnsureStore(c) ==
    \/ calls[c].pc = "idle" /\ calls'[c].pc # "idle"
    \/ calls[c].pc = "body" /\ calls[c].stage = 1 /\ calls'[c].stage = 2

\* C23: ensureStore(name) is a no-op when the open handle has the store
\* name: the handle stays open and is still the one in db, no open request
\* is issued, and the schema version and the set of object stores are
\* unchanged.
C23_EnsureStoreNoOp ==
    [][\A c \in Calls :
          (/\ EntersEnsureStore(c)
           /\ db # NoHandle
           /\ calls'[c].store \in conns[db].stores)
          => /\ db' = db
             /\ conns' = conns
             /\ openQueue' = openQueue
             /\ initPromise' = initPromise
             /\ dbVersion' = dbVersion
             /\ dbStores' = dbStores
             /\ calls'[c].pc = "ensured"]_vars

\* A call for weather has gone through ensureStore while the open handle,
\* obtained by an upgrade, already had the store.
C23_Witness ==
    \E c \in Calls \ {1} :
        /\ calls[c].pc = "ensured"
        /\ calls[c].store = "weather"
        /\ db # NoHandle
        /\ "weather" \in conns[db].stores
        /\ openQueue = <<>>
        /\ created["weather"] = 1
        /\ \A d \in 1..(c - 1) : calls[d].pc \in {"done", "failed"}

\* The mode of the transaction an operation opens for a request.
ModeOf(op, type) ==
    IF op \in {"read", "readAll", "readAllData", "count"} THEN "readonly"
    ELSE IF op \in {"create", "delete", "deleteAll", "clear"} THEN "readwrite"
    ELSE IF type = "get" THEN "readonly"
    ELSE "readwrite"

\* C24: every transaction an operation opens is on the operation's target
\* namespace and no other; it is readonly for read, readAll and count and
\* for the read inside upsert and update, and readwrite for create, the
\* write of upsert and of update, delete, deleteAll and clear.
C24_TransactionScope ==
    \A ns \in StoreNames : \A i \in 1..Len(txQueue[ns]) :
        LET q == txQueue[ns][i]
        IN  /\ calls[q.by].store = ns
            /\ \A other \in StoreNames \ {ns} :
                  \A j \in 1..Len(txQueue[other]) : txQueue[other][j].by # q.by
            /\ q.mode = ModeOf(calls[q.by].op, q.type)
            /\ q.type \in {"get", "getAll", "count"} <=> q.mode = "readonly"

\* Transactions of both modes are open on both namespaces.
C24_Witness ==
    /\ \E i \in 1..Len(txQueue["weather"]) : txQueue["weather"][i].mode = "readonly"
    /\ \E i \in 1..Len(txQueue[DEFAULT_STORE_NAME]) :
          /\ txQueue[DEFAULT_STORE_NAME][i].mode = "readwrite"
          /\ calls[txQueue[DEFAULT_STORE_NAME][i].by].op \in {"upsert", "update"}

\* C26: every stored record has updatedAt >= createdAt, in every reachable
\* state of every namespace, under any interleaving of create, upsert and
\* update calls on the same id with a clock that does not go back.
C26_UpdatedAfterCreated ==
    \A ns \in StoreNames : \A i \in Ids :
        objects[ns][i] # Null => objects[ns][i].updatedAt >= objects[ns][i].createdAt

\* C27: the instance never leaks a connection: every connection it opened
\* and has not closed is the one held in db, so at most one is open, and
\* when db is given a new handle every earlier handle has been closed.
C27_NoConnectionLeak ==
    \A k \in 1..Len(conns) : ~conns[k].closed => k = db

\* C28: every storage operation eventually settles: when the engine serves
\* its requests fairly and no other connection to the database exists, the
\* promise of every call is eventually resolved or rejected, for any
\* interleaving of calls naming existing and missing namespaces.
C28_EventuallySettles ==
    \A c \in Calls : (calls[c].pc # "idle") ~> (calls[c].pc \in {"done", "failed"})


\* C29: the target namespace of an operation called without a storeName is
\* the store that is current when it is called, and stays that one: across
\* every step the namespace of a call in flight does not change, every
\* request issued for the call is queued on that namespace, a read returns
\* the record of that namespace, and the records of a namespace change
\* only by a request of a call whose namespace it is, whatever useStore
\* sets in the meantime.
C29_TargetFixed ==
    [][/\ \A c \in Calls :
            /\ (calls[c].pc = "idle" /\ calls'[c].pc # "idle")
                   => calls'[c].store = currentStore
            /\ calls[c].pc # "idle" => calls'[c].store = calls[c].store
            /\ \A ns \in StoreNames : \A k \in 1..Len(txQueue'[ns]) :
                   txQueue'[ns][k].by = c => ns = calls'[c].store
            /\ (calls[c].op = "read" /\ calls[c].pc = "tx"
                   /\ calls'[c].pc = "done")
                   => calls'[c].res = Found(objects[calls[c].store][calls[c].id])
       /\ \A ns \in StoreNames :
            objects'[ns] # objects[ns]
               => /\ txQueue[ns] # <<>>
                  /\ calls[Head(txQueue[ns]).by].store = ns]_vars

\* An upsert has read and has its put queued on the namespace it was called
\* on, after useStore made another store current.
C29_Witness ==
    \E c \in Calls :
        /\ calls[c].op = "upsert"
        /\ calls[c].store # currentStore
        /\ \E k \in 1..Len(txQueue[calls[c].store]) :
              /\ txQueue[calls[c].store][k].by = c
              /\ txQueue[calls[c].store][k].type = "put"
        /\ txQueue[currentStore] = <<>>


\* An open or upgrade request of the registry fails in this step.
OpenFails ==
    /\ openQueue # <<>>
    /\ Head(openQueue).kind \in {"init", "ensure"}
    /\ openQueue' = Tail(openQueue)
    /\ ~calls[Head(openQueue).by].engineError
    /\ calls'[Head(openQueue).by].engineError

\* C30: a failed open leaves the registry retryable: right after an open or
\* upgrade request of init or ensureStore fails, the instance holds no
\* handle and no initialization promise; no call awaits an initialization
\* promise that has already been settled; and no call runs its body or has a
\* request in flight on a null handle.
C30_FailedOpenRetryable ==
    /\ [](\A c \in Calls :
            /\ calls[c].pc = "wait" => calls[calls[c].awaits].pc = "open"
            /\ calls[c].pc \in {"body", "tx", "write"} => calls[c].db # NoHandle
            /\ (calls[c].pc = "body" /\ calls[c].stage = 2)
                   => calls[c].rdb # NoHandle)
    /\ [][OpenFails => db' = NoHandle /\ initPromise' = 0]_vars

====
